---- MODULE Spec2Model ----
(***************************************************************************)
(* Model of the g-data-pipeline service: the upload handler, the bounded   *)
(* job queue and its single background worker, DataProcessor::process_job, *)
(* the insights handler, and ConversationService::process_query.           *)
(*                                                                         *)
(* Uuid::new_v4() is modelled by a counter (nextId): every call returns a  *)
(* value never returned before.  Strings that the code inspects (file      *)
(* names, query texts) are sequences of one-character strings; storage     *)
(* keys are sequences of path segments, so "uploads/<id>.csv" is           *)
(* <<"uploads", id>> and "<bucket>/<key>" is <<bucket>> \o key.            *)
(* Calls on the storage, job-record, cache and NL collaborators return     *)
(* Result: every such call may fail.                                       *)
(***************************************************************************)
EXTENDS Integers, Sequences, FiniteSets, TLC

\* ------------------------------------------------------------------ bounds
\* Capacity of the job channel.  main.rs creates it with 32 slots; the model
\* scales the capacity down so that a full queue is reachable.
QueueCapacity == 1
\* Number of uploads that pass validation in one behaviour.
MaxUploads == 2
\* Number of conversation contexts created in one behaviour.
MaxContexts == 2
\* Number of conversation turns recorded in one behaviour.
MaxTurns == 2

\* ------------------------------------------------------------------ values
Handlers == {"h1", "h2"}
\* The handlers that serve upload requests: one upload is in flight at a time.
Uploaders == {"h1"}
Runners == {"worker"} \cup Handlers

NoVal == [kind |-> "none"]

EmptyFile == [kind |-> "empty"]
Garbage == [kind |-> "garbage"]
\* dtypes: the type the CSV reader infers for each column of the bytes.
Table1 == [kind |-> "csv", columns |-> << <<"col1">>, <<"col2">> >>,
           rows |-> << <<1, 2>>, <<3, 4>> >>, dtypes |-> <<"integer", "integer">>]
Table0 == [kind |-> "csv", columns |-> << <<"col1">> >>, rows |-> << >>,
           dtypes |-> <<"string">>]

\* JobStatus::to_string
Queued == "queued"
Processing == "processing"
Completed == "completed"
Failed == "failed"

\* ------------------------------------------------------------------ strings
ToLowerChar(c) ==
    CASE c = "A" -> "a"
      [] c = "C" -> "c"
      [] c = "S" -> "s"
      [] c = "V" -> "v"
      [] c = "M" -> "m"
      [] c = "E" -> "e"
      [] c = "N" -> "n"
      [] c = "U" -> "u"
      [] c = "R" -> "r"
      [] c = "G" -> "g"
      [] c = "O" -> "o"
      [] c = "T" -> "t"
      [] OTHER -> c

to_lowercase(s) == [i \in 1..Len(s) |-> ToLowerChar(s[i])]

ends_with(s, suffix) ==
    /\ Len(s) >= Len(suffix)
    /\ SubSeq(s, Len(s) - Len(suffix) + 1, Len(s)) = suffix

contains(s, sub) ==
    \E i \in 1..(Len(s) - Len(sub) + 1) : SubSeq(s, i, i + Len(sub) - 1) = sub

DotCsv == <<".", "c", "s", "v">>

FileNames == { <<"a", ".", "c", "s", "v">>,
               <<"A", ".", "C", "S", "V">>,
               <<"a", ".", "t", "x", "t">> }

UploadContents == {EmptyFile, Garbage, Table1}

VARIABLES
    backend,    \* "memory" or "external": which cache implementation is wired
    storage,    \* MemoryS3Service.data: key -> bytes
    disk,       \* files under ./storage: key -> bytes
    jobs,       \* the job store: job id -> [file_key, status]
    queue,      \* the mpsc channel: job ids sent and not yet received
    cache,      \* the cache: job id -> [value, ttl]
    nextId,     \* number of uuids generated so far
    run,        \* per caller, the execution of process_job in progress
    req,        \* per HTTP handler, the request in progress
    last,       \* the latest response sent: [op, input, resp]
    received,   \* job ids the worker took from the queue, in order
    invoked,    \* job ids the worker called process_job for, in order
    logged,     \* what the worker logged: <<job id, whether process_job returned Ok>>
    expired,    \* job ids whose cache entry expired since it was last written
    ai_service, \* whether an NL capability is configured
    contexts    \* InMemoryStore.conversations: id -> context

vars == <<backend, storage, disk, jobs, queue, cache, nextId, run, req, last,
          received, invoked, logged, expired, ai_service, contexts>>

\* ------------------------------------------------------------------ helpers
file_key_of(id) == <<"uploads", id>>

IdleRun == [pc |-> "idle", job |-> 0, file_key |-> << >>, data |-> NoVal,
            df |-> NoVal, insights |-> NoVal, result |-> NoVal, trace |-> << >>]

IdleReq == [op |-> "none", pc |-> "idle", input |-> NoVal, loc |-> NoVal]

\* No response is waiting to be written to the client.
Ready == last = NoVal

Answer(op, in, r) == [op |-> op, input |-> in, resp |-> r]

Ok == [ok |-> TRUE]
Err(msg) == [ok |-> FALSE, error |-> msg]

ErrorResponse(code, msg) == [status |-> code, error |-> msg]

S3Bucket == "data-pipeline-bucket"

Put(f, k, v) == [x \in (DOMAIN f) \cup {k} |-> IF x = k THEN v ELSE f[x]]
Remove(f, k) == [x \in (DOMAIN f) \ {k} |-> f[x]]
EmptyMap == [x \in {} |-> NoVal]

\* ------------------------------------------------------------------ storage
\* MemoryS3Service::upload_file: the in-memory insert comes first, the write
\* to disk second; when the write to disk fails the call returns Err and the
\* in-memory entry stays.
upload_file(st, dk, key, data, diskOk) ==
    [res |-> IF diskOk THEN Ok ELSE Err("Failed to write to file"),
     storage |-> Put(st, key, data),
     disk |-> IF diskOk THEN Put(dk, key, data) ELSE dk]

\* MemoryS3Service::get_object: "<bucket>/<key>" in memory, then <key> in
\* memory, then the file on disk (which is then inserted in memory under <key>).
get_object(st, dk, bucket, key) ==
    LET full_key == <<bucket>> \o key IN
    IF full_key \in DOMAIN st THEN [res |-> Ok, data |-> st[full_key], storage |-> st]
    ELSE IF key \in DOMAIN st THEN [res |-> Ok, data |-> st[key], storage |-> st]
    ELSE IF key \in DOMAIN dk
         THEN [res |-> Ok, data |-> dk[key], storage |-> Put(st, key, dk[key])]
    ELSE [res |-> Err("Object not found"), data |-> NoVal, storage |-> st]

\* ------------------------------------------------------------------ job store
create_job(js, id, file_key) == Put(js, id, [file_key |-> file_key, status |-> Queued])

get_job(js, id) == IF id \in DOMAIN js THEN js[id] ELSE NoVal

update_job_status(js, id, status) ==
    IF id \in DOMAIN js
    THEN [res |-> Ok, jobs |-> [js EXCEPT ![id].status = status]]
    ELSE [res |-> Err("Job not found"), jobs |-> js]

\* ------------------------------------------------------------------ cache
ToJson(v) == [json |-> v]
FromJson(s) == s.json

\* serde_json values: a number, a string (its characters), null, an array
\* of values, and an object, the <<name, value>> pairs of its members.
JNum(v) == [t |-> "number", v |-> v]
JStr(s) == [t |-> "string", v |-> s]
JNull == [t |-> "null", v |-> << >>]
JArr(s) == [t |-> "array", v |-> s]
JObj(members) == [t |-> "object", v |-> members]

\* The value of the member of an object; the member is there.
get_field(row, col) == row[CHOOSE k \in 1..Len(row) : row[k][1] = col][2]

\* The elements of a set in a sequence.
RECURSIVE SeqOf(_)
SeqOf(s) == IF s = {} THEN << >> ELSE LET e == CHOOSE x \in s : TRUE IN <<e>> \o SeqOf(s \ {e})

\* serde_json::to_string(insights): the text of the object of the fields
\* of Insights; an Option that is None is written null, a map as an object.
to_string_insights(insights) ==
    LET c == insights.correlations
        names == IF c.kind = "some" THEN SeqOf(DOMAIN c.v) ELSE << >> IN
    [json |-> JObj(<< <<"row_count", JNum(insights.row_count)>>,
                      <<"column_count", JNum(insights.column_count)>>,
                      <<"columns", JArr([k \in 1..Len(insights.columns) |->
                                           JStr(insights.columns[k])])>>,
                      <<"correlations",
                        IF c.kind = "some"
                        THEN JObj([k \in 1..Len(names) |-> <<names[k], JNum(c.v[names[k]])>>])
                        ELSE JNull>> >>)]

\* serde_json::from_str::<Insights>(text): the fields are read by name.
from_str_insights(text) ==
    LET obj == text.json.v
        columns == get_field(obj, "columns").v
        c == get_field(obj, "correlations") IN
    [row_count |-> get_field(obj, "row_count").v,
     column_count |-> get_field(obj, "column_count").v,
     columns |-> [k \in 1..Len(columns) |-> columns[k].v],
     correlations |->
        IF c.t = "null" THEN NoVal
        ELSE [kind |-> "some",
              v |-> [name \in {c.v[k][1] : k \in 1..Len(c.v)} |-> get_field(c.v, name).v]]]

\* format!("insights:{}", job_id): the key of the entry of a job
insights_key(id) == id

\* 3600 * 24: the lifetime in seconds RedisService gives the entry;
\* 0 stands for an entry without expiry.
InsightsTtl == 86400

\* Variant of cache_insights that keeps one entry for all jobs.
cache_insights_OneKey(c, be, id, insights) ==
    Put(c, insights_key(1), [value |-> to_string_insights(insights),
                             ttl |-> IF be = "external" THEN InsightsTtl ELSE 0])

\* RedisServiceTrait::cache_insights: MemoryRedisService stores without an
\* expiry (set_value), RedisService with one of 24 hours (set_with_expiry).
cache_insights(c, be, id, insights) ==
    Put(c, insights_key(id), [value |-> to_string_insights(insights),
                              ttl |-> IF be = "external" THEN InsightsTtl ELSE 0])

get_insights_value(c, id) ==
    IF insights_key(id) \in DOMAIN c THEN c[insights_key(id)].value ELSE NoVal

\* ------------------------------------------------------------------ insight generator
parse_csv_data(data) ==
    IF data.kind = "csv"
    THEN [res |-> Ok, df |-> [columns |-> data.columns, rows |-> data.rows,
                              dtypes |-> data.dtypes]]
    ELSE [res |-> Err("Failed to parse CSV data"), df |-> NoVal]

\* The null the reader puts for an empty cell of a numeric column; the
\* numbers in the model's files are naturals.
NullCell == -1

\* The names of the columns of a numeric dtype, in column order.
numeric_columns_of(df) ==
    LET idx == {i \in 1..Len(df.columns) : df.dtypes[i] \in {"integer", "float"}}
        nth[k \in 0..Len(df.columns)] ==
            IF k = 0 THEN << >>
            ELSE IF k \in idx THEN Append(nth[k - 1], df.columns[k]) ELSE nth[k - 1] IN
    nth[Len(df.columns)]

\* df.column(c)?.cast(&DataType::Float64): the cells of the column
cast_f64(df, c) ==
    LET i == CHOOSE k \in 1..Len(df.columns) : df.columns[k] = c IN
    [r \in 1..Len(df.rows) |-> df.rows[r][i]]

RECURSIVE SumSeq(_, _)
SumSeq(s, n) == IF n = 0 THEN 0 ELSE s[n] + SumSeq(s, n - 1)

\* The number cov / sqrt(var1 * var2).
Correlation(cov, var1, var2) == [kind |-> "corr", cov |-> cov, var1 |-> var1, var2 |-> var2]

\* calculate_correlation.  ChunkedArray::mean is the mean sum / count of
\* the values of the series that are not null, none without such a value;
\* the deviations are kept as the integers count * (x - mean), a scaling
\* that cancels in the quotient.
calculate_correlation(s1, s2) ==
    LET n == Len(s1)
        some1 == {r \in 1..n : s1[r] # NullCell}
        some2 == {r \in 1..Len(s2) : s2[r] # NullCell}
        count1 == Cardinality(some1)
        count2 == Cardinality(some2)
        sum1 == SumSeq([r \in 1..n |-> IF r \in some1 THEN s1[r] ELSE 0], n)
        sum2 == SumSeq([r \in 1..Len(s2) |-> IF r \in some2 THEN s2[r] ELSE 0], Len(s2))
        valid == some1 \cap some2
        dx(r) == IF r \in valid THEN count1 * s1[r] - sum1 ELSE 0
        dy(r) == IF r \in valid THEN count2 * s2[r] - sum2 ELSE 0
        cov_sum == SumSeq([r \in 1..n |-> dx(r) * dy(r)], n)
        var1_sum == SumSeq([r \in 1..n |-> dx(r) * dx(r)], n)
        var2_sum == SumSeq([r \in 1..n |-> dy(r) * dy(r)], n) IN
    IF Len(s1) # Len(s2) THEN Err("Series must have the same length")
    ELSE IF count1 = 0 THEN Err("Cannot compute mean of first series")
    ELSE IF count2 = 0 THEN Err("Cannot compute mean of second series")
    ELSE IF Cardinality(valid) < 2
    THEN Err("Not enough valid data points to compute correlation")
    ELSE IF var1_sum = 0 \/ var2_sum = 0
    THEN Err("Cannot compute correlation: one or both series have zero variance")
    ELSE IF cov_sum * cov_sum > var1_sum * var2_sum
    THEN Err("Invalid correlation coefficient")
    ELSE [ok |-> TRUE, value |-> Correlation(cov_sum, var1_sum, var2_sum)]

\* format!("{}-{}", c1, c2)
pair_key(c1, c2) == c1 \o <<"-">> \o c2

\* The correlations of generate_insights: none with fewer than two numeric
\* columns, otherwise the map with an entry for each pair i < j of numeric
\* columns whose correlation is computed.
correlations_of(df) ==
    LET numeric_columns == numeric_columns_of(df)
        n == Len(numeric_columns)
        corr(p) == calculate_correlation(cast_f64(df, numeric_columns[p[1]]),
                                         cast_f64(df, numeric_columns[p[2]]))
        pairs == {p \in (1..n) \X (1..n) : p[1] < p[2] /\ corr(p).ok}
        key(p) == pair_key(numeric_columns[p[1]], numeric_columns[p[2]]) IN
    IF n >= 2
    THEN [kind |-> "some",
          v |-> [k \in {key(p) : p \in pairs} |-> corr(CHOOSE p \in pairs : key(p) = k).value]]
    ELSE NoVal

generate_insights(df) ==
    [row_count |-> Len(df.rows), column_count |-> Len(df.columns),
     columns |-> df.columns, correlations |-> correlations_of(df)]

\* ------------------------------------------------------------------ process_job
\* One execution of DataProcessor::process_job by caller r (the worker, or an
\* insights handler).  run[r].pc is the step it is about to take; trace is the
\* list of steps it has completed.
Proceed(r, step, next, fields) ==
    [run EXCEPT ![r] = [fields EXCEPT !.pc = next, !.trace = Append(@, step)]]

Return(r, result) ==
    [run EXCEPT ![r] = [IdleRun EXCEPT !.pc = "returned", !.job = run[r].job,
                                       !.result = result, !.trace = run[r].trace]]

StartRun(r, j) ==
    [run EXCEPT ![r] = [IdleRun EXCEPT !.pc = "set_processing", !.job = j]]

\* 1) update_job_status(job_id, Processing)?
PSetProcessing(r) ==
    /\ Ready
    /\ run[r].pc = "set_processing"
    /\ \E dbOk \in BOOLEAN :
         LET u == update_job_status(jobs, run[r].job, Processing) IN
         IF dbOk /\ u.res.ok
         THEN /\ jobs' = u.jobs
              /\ run' = Proceed(r, "set_processing", "get_job", run[r])
         ELSE /\ jobs' = jobs
              /\ run' = Return(r, IF dbOk THEN u.res ELSE Err("db"))
    /\ UNCHANGED <<backend, storage, disk, queue, cache, nextId, req, last, received,
                   invoked, logged, expired, ai_service, contexts>>

\* 2) get_job(job_id)? ; None => Err("Job not found")
PGetJob(r) ==
    /\ Ready
    /\ run[r].pc = "get_job"
    /\ \E dbOk \in BOOLEAN :
         LET job == get_job(jobs, run[r].job) IN
         IF dbOk /\ job # NoVal
         THEN run' = Proceed(r, "get_job", "get_object",
                             [run[r] EXCEPT !.file_key = job.file_key])
         ELSE run' = Return(r, IF dbOk THEN Err("Job not found") ELSE Err("db"))
    /\ UNCHANGED <<backend, storage, disk, jobs, queue, cache, nextId, req, last,
                   received, invoked, logged, expired, ai_service, contexts>>

\* 3) s3_service.get_object(&self.s3_bucket, &job.file_key)
PGetObject(r) ==
    /\ Ready
    /\ run[r].pc = "get_object"
    /\ \E ioOk \in BOOLEAN :
         LET g == get_object(storage, disk, S3Bucket, run[r].file_key) IN
         IF ioOk /\ g.res.ok
         THEN /\ storage' = g.storage
              /\ run' = Proceed(r, "get_object", "parse_csv",
                                [run[r] EXCEPT !.data = g.data])
         ELSE /\ storage' = storage
              /\ run' = Return(r, IF ioOk THEN g.res ELSE Err("io"))
    /\ UNCHANGED <<backend, disk, jobs, queue, cache, nextId, req, last, received,
                   invoked, logged, expired, ai_service, contexts>>

\* Variant of step 4 that marks the job Failed when the parse fails.
PParseCsv_MarkFailed(r) ==
    /\ Ready
    /\ run[r].pc = "parse_csv"
    /\ LET p == parse_csv_data(run[r].data) IN
         IF p.res.ok
         THEN /\ run' = Proceed(r, "parse_csv", "generate_insights",
                                [run[r] EXCEPT !.df = p.df])
              /\ jobs' = jobs
         ELSE /\ run' = Return(r, p.res)
              /\ jobs' = update_job_status(jobs, run[r].job, Failed).jobs
    /\ UNCHANGED <<backend, storage, disk, queue, cache, nextId, req, last,
                   received, invoked, logged, expired, ai_service, contexts>>

\* 4) parse_csv_data(&csv_data)
PParseCsv(r) ==
    /\ Ready
    /\ run[r].pc = "parse_csv"
    /\ LET p == parse_csv_data(run[r].data) IN
         IF p.res.ok
         THEN run' = Proceed(r, "parse_csv", "generate_insights",
                             [run[r] EXCEPT !.df = p.df])
         ELSE run' = Return(r, p.res)
    /\ UNCHANGED <<backend, storage, disk, jobs, queue, cache, nextId, req, last,
                   received, invoked, logged, expired, ai_service, contexts>>

\* 5) generate_insights(&df); its casts can fail
PGenerateInsights(r) ==
    /\ Ready
    /\ run[r].pc = "generate_insights"
    /\ \E castOk \in BOOLEAN :
         IF castOk
         THEN run' = Proceed(r, "generate_insights", "cache_insights",
                             [run[r] EXCEPT !.insights = generate_insights(run[r].df)])
         ELSE run' = Return(r, Err("Failed to generate insights"))
    /\ UNCHANGED <<backend, storage, disk, jobs, queue, cache, nextId, req, last,
                   received, invoked, logged, expired, ai_service, contexts>>

\* Variant of step 6 that goes on to the Completed write without caching.
PCacheInsights_Skip(r) ==
    /\ Ready
    /\ run[r].pc = "cache_insights"
    /\ run' = Proceed(r, "cache_insights", "set_completed", run[r])
    /\ UNCHANGED <<backend, storage, disk, jobs, queue, cache, nextId, req, last,
                   received, invoked, logged, expired, ai_service, contexts>>

\* 6) redis_service.cache_insights(job_id, &insights)
PCacheInsights(r) ==
    /\ Ready
    /\ run[r].pc = "cache_insights"
    /\ \E cacheOk \in BOOLEAN :
         IF cacheOk
         THEN /\ cache' = cache_insights(cache, backend, run[r].job, run[r].insights)
              /\ expired' = expired \ {run[r].job}
              /\ run' = Proceed(r, "cache_insights", "set_completed", run[r])
         ELSE /\ UNCHANGED <<cache, expired>>
              /\ run' = Return(r, Err("cache"))
    /\ UNCHANGED <<backend, storage, disk, jobs, queue, nextId, req, last, received,
                   invoked, logged, ai_service, contexts>>

\* 7) update_job_status(job_id, Completed) ; return Ok(())
PSetCompleted(r) ==
    /\ Ready
    /\ run[r].pc = "set_completed"
    /\ \E dbOk \in BOOLEAN :
         LET u == update_job_status(jobs, run[r].job, Completed) IN
         IF dbOk /\ u.res.ok
         THEN /\ jobs' = u.jobs
              /\ run' = [run EXCEPT ![r] = [IdleRun EXCEPT !.pc = "returned",
                            !.job = run[r].job, !.result = Ok,
                            !.trace = Append(run[r].trace, "set_completed")]]
         ELSE /\ jobs' = jobs
              /\ run' = Return(r, IF dbOk THEN u.res ELSE Err("db"))
    /\ UNCHANGED <<backend, storage, disk, queue, cache, nextId, req, last, received,
                   invoked, logged, expired, ai_service, contexts>>

\* ------------------------------------------------------------------ worker
\* while let Some(job_id) = rx.recv().await { match process_job(job_id).await ..
WorkerRecv ==
    /\ Ready
    /\ run["worker"].pc = "idle"
    /\ queue # << >>
    /\ queue' = Tail(queue)
    /\ received' = Append(received, Head(queue))
    /\ invoked' = Append(invoked, Head(queue))
    /\ run' = StartRun("worker", Head(queue))
    /\ UNCHANGED <<backend, storage, disk, jobs, cache, nextId, req, last, logged,
                   expired, ai_service, contexts>>

\* Variant of the worker's match that sends a failed job back to the queue.
WorkerLog_Requeue ==
    /\ Ready
    /\ run["worker"].pc = "returned"
    /\ logged' = Append(logged, <<run["worker"].job, run["worker"].result.ok>>)
    /\ run' = [run EXCEPT !["worker"] = IdleRun]
    /\ queue' = IF run["worker"].result.ok \/ Len(queue) >= QueueCapacity
                THEN queue ELSE Append(queue, run["worker"].job)
    /\ UNCHANGED <<backend, storage, disk, jobs, cache, nextId, req, last,
                   received, invoked, expired, ai_service, contexts>>

\* Variant of the worker's match that leaves the loop when process_job
\* returned an error.
WorkerLog_StopOnError ==
    /\ Ready
    /\ run["worker"].pc = "returned"
    /\ logged' = Append(logged, <<run["worker"].job, run["worker"].result.ok>>)
    /\ run' = [run EXCEPT !["worker"] =
                 IF run["worker"].result.ok THEN IdleRun
                 ELSE [IdleRun EXCEPT !.pc = "stopped"]]
    /\ UNCHANGED <<backend, storage, disk, jobs, queue, cache, nextId, req, last,
                   received, invoked, expired, ai_service, contexts>>

\* Ok(_) => log::info!(..), Err(e) => log::error!(..); then the next recv
WorkerLog ==
    /\ Ready
    /\ run["worker"].pc = "returned"
    /\ logged' = Append(logged, <<run["worker"].job, run["worker"].result.ok>>)
    /\ run' = [run EXCEPT !["worker"] = IdleRun]
    /\ UNCHANGED <<backend, storage, disk, jobs, queue, cache, nextId, req, last,
                   received, invoked, expired, ai_service, contexts>>

\* The 24 hours of an entry written by RedisService have elapsed.
Expire ==
    /\ Ready
    /\ \E j \in DOMAIN cache :
         /\ cache[j].ttl > 0
         /\ cache' = Remove(cache, j)
         /\ expired' = expired \cup {j}
    /\ UNCHANGED <<backend, storage, disk, jobs, queue, nextId, run, req, last,
                   received, invoked, logged, ai_service, contexts>>

\* ------------------------------------------------------------------ upload handler
UploadResponse(code, id, status) == [status |-> code, job_id |-> id, job_status |-> status]

JobIds == 1..(2 * MaxUploads)

\* Variant of upload_csv that checks the file name before the content.
UploadBegin_NameFirst(h, content, filename) ==
    /\ Ready
    /\ req[h].pc = "idle"
    /\ LET in == [content |-> content, filename |-> filename] IN
       IF ~ ends_with(to_lowercase(filename), DotCsv)
       THEN last' = Answer("upload", in, ErrorResponse(400, "File must be a CSV"))
       ELSE last' = Answer("upload", in, ErrorResponse(400, "No file uploaded"))
    /\ content = EmptyFile \/ ~ ends_with(to_lowercase(filename), DotCsv)
    /\ UNCHANGED <<backend, storage, disk, jobs, queue, cache, nextId, run, req,
                   received, invoked, logged, expired, ai_service, contexts>>

\* upload_csv up to the end of s3_service.upload_file: the two validations,
\* then the upload under the key "uploads/<fresh uuid>.csv".
UploadBegin(h, content, filename) ==
    /\ Ready
    /\ req[h].pc = "idle"
    /\ LET in == [content |-> content, filename |-> filename] IN
       IF content = EmptyFile
       THEN /\ last' = Answer("upload", in, ErrorResponse(400, "No file uploaded"))
            /\ UNCHANGED <<storage, disk, nextId, req>>
       ELSE IF ~ ends_with(to_lowercase(filename), DotCsv)
       THEN /\ last' = Answer("upload", in, ErrorResponse(400, "File must be a CSV"))
            /\ UNCHANGED <<storage, disk, nextId, req>>
       ELSE /\ nextId + 2 <= 2 * MaxUploads
            /\ nextId' = nextId + 1
            /\ \E diskOk \in BOOLEAN :
                 LET key == file_key_of(nextId + 1)
                     u == upload_file(storage, disk, key, content, diskOk) IN
                 /\ storage' = u.storage
                 /\ disk' = u.disk
                 /\ IF u.res.ok
                    THEN /\ req' = [req EXCEPT ![h] = [op |-> "upload", pc |-> "create_job",
                                      input |-> in, loc |-> [file_key |-> key]]]
                         /\ last' = last
                    ELSE /\ req' = req
                         /\ last' = Answer("upload", in,
                                           ErrorResponse(500, "Failed to upload file"))
    /\ UNCHANGED <<backend, jobs, queue, cache, run, received, invoked, logged,
                   expired, ai_service, contexts>>

\* db_service.create_job(new_job), then tx.send(job_id).await: a send on a
\* full channel suspends the handler until the worker has taken an id out.
UploadCreateJob(h) ==
    /\ Ready
    /\ req[h].op = "upload" /\ req[h].pc = "create_job"
    /\ \E dbOk \in BOOLEAN :
         IF ~ dbOk
         THEN /\ req' = [req EXCEPT ![h] = IdleReq]
              /\ last' = Answer("upload", NoVal,
                                ErrorResponse(500, "Failed to create job"))
              /\ UNCHANGED <<jobs, queue, nextId>>
         ELSE LET id == nextId + 1 IN
              /\ nextId' = id
              /\ jobs' = create_job(jobs, id, req[h].loc.file_key)
              /\ IF Len(queue) < QueueCapacity
                 THEN /\ queue' = Append(queue, id)
                      /\ req' = [req EXCEPT ![h] = IdleReq]
                      /\ last' = Answer("upload", NoVal,
                                        UploadResponse(200, id, Queued))
                 ELSE /\ queue' = queue
                      /\ req' = [req EXCEPT ![h].pc = "send_wait", ![h].input = NoVal,
                                   ![h].loc = [job_id |-> id]]
                      /\ last' = last
    /\ UNCHANGED <<backend, storage, disk, cache, run, received, invoked, logged,
                   expired, ai_service, contexts>>

\* The suspended tx.send(job_id) completes once the channel has a free slot.
UploadSendResume(h) ==
    /\ Ready
    /\ req[h].op = "upload" /\ req[h].pc = "send_wait"
    /\ Len(queue) < QueueCapacity
    /\ queue' = Append(queue, req[h].loc.job_id)
    /\ req' = [req EXCEPT ![h] = IdleReq]
    /\ last' = Answer("upload", NoVal,
                      UploadResponse(200, req[h].loc.job_id, Queued))
    /\ UNCHANGED <<backend, storage, disk, jobs, cache, nextId, run, received,
                   invoked, logged, expired, ai_service, contexts>>

\* ------------------------------------------------------------------ insights handler
InsightsResponse(id, value) ==
    [status |-> 200, job_id |-> id, job_status |-> Completed,
     insights |-> from_str_insights(value)]

\* Variant of get_insights that looks in the cache whatever the status of
\* the job is.
InsightsRequest_AnyStatus(h, id) ==
    /\ Ready
    /\ req[h].pc = "idle"
    /\ \E dbOk \in BOOLEAN, cacheOk \in BOOLEAN :
         LET job == get_job(jobs, id)
             in == [job_id |-> id]
             answer(r) == /\ last' = Answer("insights", in, r)
                          /\ UNCHANGED <<req, run>> IN
         IF ~ dbOk THEN answer(ErrorResponse(500, "Database error"))
         ELSE IF job = NoVal THEN answer(ErrorResponse(404, "Job not found"))
         ELSE IF ~ cacheOk THEN answer(ErrorResponse(500, "Cache error"))
         ELSE IF get_insights_value(cache, id) # NoVal
         THEN answer(InsightsResponse(id, get_insights_value(cache, id)))
         ELSE /\ req' = [req EXCEPT ![h] = [op |-> "insights", pc |-> "process_job",
                           input |-> in, loc |-> NoVal]]
              /\ run' = StartRun(h, id)
              /\ last' = last
    /\ UNCHANGED <<backend, storage, disk, jobs, queue, cache, nextId, received,
                   invoked, logged, expired, ai_service, contexts>>

\* get_insights up to the first cache lookup; on a miss for a completed job
\* the handler itself calls processor.process_job(job_id).
InsightsRequest(h, id) ==
    /\ Ready
    /\ req[h].pc = "idle"
    /\ \E dbOk \in BOOLEAN, cacheOk \in BOOLEAN :
         LET job == get_job(jobs, id)
             in == [job_id |-> id]
             answer(r) == /\ last' = Answer("insights", in, r)
                          /\ UNCHANGED <<req, run>> IN
         IF ~ dbOk THEN answer(ErrorResponse(500, "Database error"))
         ELSE IF job = NoVal THEN answer(ErrorResponse(404, "Job not found"))
         ELSE IF job.status # Completed THEN answer(UploadResponse(202, id, job.status))
         ELSE IF ~ cacheOk THEN answer(ErrorResponse(500, "Cache error"))
         ELSE IF get_insights_value(cache, id) # NoVal
         THEN answer(InsightsResponse(id, get_insights_value(cache, id)))
         ELSE /\ req' = [req EXCEPT ![h] = [op |-> "insights", pc |-> "process_job",
                           input |-> in, loc |-> NoVal]]
              /\ run' = StartRun(h, id)
              /\ last' = last
    /\ UNCHANGED <<backend, storage, disk, jobs, queue, cache, nextId, received,
                   invoked, logged, expired, ai_service, contexts>>

\* get_insights after processor.process_job(job_id) has returned.
InsightsAfterProcess(h) ==
    /\ Ready
    /\ req[h].op = "insights" /\ req[h].pc = "process_job"
    /\ run[h].pc = "returned"
    /\ LET id == req[h].input.job_id
           value == get_insights_value(cache, id)
           r == IF ~ run[h].result.ok
                THEN ErrorResponse(500, "Failed to process job")
                ELSE IF value # NoVal THEN InsightsResponse(id, value)
                ELSE ErrorResponse(500, "Failed to generate insights") IN
       last' = Answer("insights", req[h].input, r)
    /\ req' = [req EXCEPT ![h] = IdleReq]
    /\ run' = [run EXCEPT ![h] = IdleRun]
    /\ UNCHANGED <<backend, storage, disk, jobs, queue, cache, nextId, received,
                   invoked, logged, expired, ai_service, contexts>>

\* ------------------------------------------------------------------ the pipeline
Init ==
    /\ backend \in {"memory", "external"}
    /\ storage = EmptyMap
    /\ disk = EmptyMap
    /\ jobs = EmptyMap
    /\ queue = << >>
    /\ cache = EmptyMap
    /\ nextId = 0
    /\ run = [r \in Runners |-> IdleRun]
    /\ req = [h \in Handlers |-> IdleReq]
    /\ last = NoVal
    /\ received = << >>
    /\ invoked = << >>
    /\ logged = << >>
    /\ expired = {}
    /\ ai_service = FALSE
    /\ contexts = EmptyMap

\* The response recorded in last is written to the client; it is delivered
\* before the next step is taken.
Deliver ==
    /\ last # NoVal
    /\ last' = NoVal
    /\ UNCHANGED <<backend, storage, disk, jobs, queue, cache, nextId, run, req,
                   received, invoked, logged, expired, ai_service, contexts>>

Next ==
    \/ Deliver
    \/ \E h \in Uploaders, c \in UploadContents, f \in FileNames : UploadBegin(h, c, f)
    \/ \E h \in Handlers : UploadCreateJob(h)
    \/ \E h \in Handlers : UploadSendResume(h)
    \/ WorkerRecv
    \/ WorkerLog
    \/ \E r \in Runners : PSetProcessing(r)
    \/ \E r \in Runners : PGetJob(r)
    \/ \E r \in Runners : PGetObject(r)
    \/ \E r \in Runners : PParseCsv(r)
    \/ \E r \in Runners : PGenerateInsights(r)
    \/ \E r \in Runners : PCacheInsights(r)
    \/ \E r \in Runners : PSetCompleted(r)
    \/ \E h \in Handlers, id \in JobIds : InsightsRequest(h, id)
    \/ \E h \in Handlers : InsightsAfterProcess(h)
    \/ Expire

Spec == Init /\ [][Next]_vars

\* ================================================================== conversation
\* Option<T>
None == NoVal
Some(v) == [kind |-> "some", v |-> v]

\* A job-id text that Uuid::parse_str rejects; every other text is the
\* uuid it spells.
NotAUuid == 0

parse_str(s) ==
    IF s = NotAUuid THEN Err("Invalid job ID") ELSE [ok |-> TRUE, uuid |-> s]

simple_key_of(id) == <<id>>

\* The (bucket, key) pairs get_dataset_metadata and execute_query try, in order.
LoadVariants(id) ==
    << <<"", file_key_of(id)>>,
       <<"default-bucket", file_key_of(id)>>,
       <<S3Bucket, file_key_of(id)>>,
       <<"", simple_key_of(id)>> >>

\* One get_object call of the sequence; ok = FALSE: the call fails on
\* its own (lock or file read error).
attempt(st, dk, v, ok) ==
    IF ok THEN get_object(st, dk, v[1], v[2])
    ELSE [res |-> Err("I/O error"), data |-> NoVal, storage |-> st]

\* Variant of the nested matches that starts from the last pair.
RECURSIVE try_variants_Reversed(_, _, _, _, _)
try_variants_Reversed(st, dk, vs, i, io) ==
    LET j == Len(vs) + 1 - i
        g == attempt(st, dk, vs[j], io[j]) IN
    IF g.res.ok \/ i = Len(vs)
    THEN [res |-> g.res, data |-> g.data, storage |-> g.storage, tried |-> {j}]
    ELSE LET t == try_variants_Reversed(st, dk, vs, i + 1, io) IN
         [t EXCEPT !.tried = @ \cup {j}]

\* The nested matches from pair i on: the next pair is tried only in the
\* Err arm of the one before.  io[k] = FALSE: call k fails on its own.
\* tried: the pairs get_object was called with.
RECURSIVE try_variants(_, _, _, _, _)
try_variants(st, dk, vs, i, io) ==
    LET g == attempt(st, dk, vs[i], io[i]) IN
    IF g.res.ok \/ i = Len(vs)
    THEN [res |-> g.res, data |-> g.data, storage |-> g.storage, tried |-> {i}]
    ELSE LET t == try_variants(st, dk, vs, i + 1, io) IN
         [t EXCEPT !.tried = @ \cup {i}]

\* The nested matches over the four variants; when the last one fails the
\* error is "Failed to load CSV data".
load_csv_io(st, dk, id, io) ==
    LET g == try_variants(st, dk, LoadVariants(id), 1, io) IN
    IF g.res.ok THEN g
    ELSE [res |-> Err("Failed to load CSV data"), data |-> NoVal, storage |-> st,
          tried |-> g.tried]

\* ioOk = FALSE: every read fails.
load_csv(st, dk, id, ioOk) ==
    load_csv_io(st, dk, id, [i \in 1..Len(LoadVariants(id)) |-> ioOk])

\* The name get_dataset_metadata gives the type of column i (a column
\* without values is read as a string column).
dtype_of(df, i) == df.dtypes[i]

\* ConversationService::get_dataset_metadata
get_dataset_metadata(st, dk, job_id, ioOk) ==
    LET u == parse_str(job_id) IN
    IF ~ u.ok THEN [res |-> u, metadata |-> NoVal, storage |-> st]
    ELSE LET g == load_csv(st, dk, u.uuid, ioOk) IN
         IF ~ g.res.ok THEN [res |-> g.res, metadata |-> NoVal, storage |-> st]
         ELSE LET p == parse_csv_data(g.data) IN
              IF ~ p.res.ok
              THEN [res |-> p.res, metadata |-> NoVal, storage |-> g.storage]
              ELSE [res |-> Ok,
                    metadata |-> [columns |-> p.df.columns,
                                  row_count |-> Len(p.df.rows),
                                  data_types |-> [i \in 1..Len(p.df.columns) |->
                                                    dtype_of(p.df, i)]],
                    storage |-> g.storage]

\* ConversationContext::new (the two timestamps are left out)
NewContext(id, job_id, metadata) ==
    [id |-> id, job_id |-> job_id, history |-> << >>, dataset_metadata |-> metadata]

\* ConversationContext::add_turn
add_turn(context, query, response) ==
    [context EXCEPT !.history = Append(@, [query |-> query, response |-> response])]

\* Variant of store that keeps the latest context only.
store_LatestOnly(cs, context) == Put(EmptyMap, context.id, context)

\* InMemoryStore::store and InMemoryStore::get
store(cs, context) == Put(cs, context.id, context)
get(cs, id) == IF id \in DOMAIN cs THEN Some(cs[id]) ELSE None

\* ------------------------------------------------------------------ query translator
AverageWord == <<"a", "v", "e", "r", "a", "g", "e">>
MeanWord == <<"m", "e", "a", "n">>
SumWord == <<"s", "u", "m">>
CountWord == <<"c", "o", "u", "n", "t">>

StructuredQuery(intent, columns, operations) ==
    [intent |-> intent, columns |-> columns, operations |-> operations]

ColumnOperation(op, column) == [op |-> op, column |-> column]

\* QueryTranslator::parse_ai_response: the reply is not read.
parse_ai_response(response) ==
    StructuredQuery("Describe", << <<"column1">>, <<"column2">> >>, << >>)

\* Variant of the rule-based translation that looks for "sum" first.
rule_based_translation_SumFirst(query, context) ==
    LET q == to_lowercase(query)
        columns == context.dataset_metadata.columns
        column == IF columns # << >> THEN Head(columns) ELSE <<"column1">>
        aggregate(op) == StructuredQuery("Aggregate", <<column>>,
                                         <<ColumnOperation(op, column)>>) IN
    IF contains(q, SumWord) THEN aggregate("Sum")
    ELSE IF contains(q, AverageWord) \/ contains(q, MeanWord) THEN aggregate("Mean")
    ELSE IF contains(q, CountWord) THEN aggregate("Count")
    ELSE StructuredQuery("Describe", columns, << >>)

\* QueryTranslator::rule_based_translation
rule_based_translation(query, context) ==
    LET q == to_lowercase(query)
        columns == context.dataset_metadata.columns
        column == IF columns # << >> THEN Head(columns) ELSE <<"column1">>
        aggregate(op) == StructuredQuery("Aggregate", <<column>>,
                                         <<ColumnOperation(op, column)>>) IN
    IF contains(q, AverageWord) \/ contains(q, MeanWord) THEN aggregate("Mean")
    ELSE IF contains(q, SumWord) THEN aggregate("Sum")
    ELSE IF contains(q, CountWord) THEN aggregate("Count")
    ELSE StructuredQuery("Describe", columns, << >>)

\* QueryTranslator::translate_query.  aiOk = FALSE: the call on the NL
\* capability fails.
translate_query(ai, query, context, aiOk) ==
    IF ai
    THEN IF aiOk THEN [res |-> Ok, query |-> parse_ai_response(NoVal)]
         ELSE [res |-> Err("AI service error"), query |-> NoVal]
    ELSE [res |-> Ok, query |-> rule_based_translation(query, context)]

\* translate_query with the result of generate_query_translation(&prompt)
\* given: response is Err(..) or [ok |-> TRUE, value |-> the reply].
translate_reply(ai, query, context, response) ==
    IF ai
    THEN IF response.ok THEN [res |-> Ok, query |-> parse_ai_response(response.value)]
         ELSE [res |-> response, query |-> NoVal]
    ELSE [res |-> Ok, query |-> rule_based_translation(query, context)]

\* ------------------------------------------------------------------ query executor
Null == [kind |-> "null"]

\* Variant of head that keeps every row.
head_All(df, n) == df

head(df, n) ==
    [df EXCEPT !.rows = SubSeq(@, 1, IF Len(@) < n THEN Len(@) ELSE n)]

ColumnIndex(df, c) ==
    IF \E i \in 1..Len(df.columns) : df.columns[i] = c
    THEN CHOOSE i \in 1..Len(df.columns) : df.columns[i] = c
    ELSE 0

RECURSIVE SumOf(_, _, _)
SumOf(df, i, n) == IF n = 0 THEN 0 ELSE df.rows[n][i] + SumOf(df, i, n - 1)

\* A float value: the quotient num / den.
Float(num, den) == [kind |-> "float", num |-> num, den |-> den]

\* What the engine leaves open: ok = FALSE, an aggregation over a column
\* without numeric values is an error rather than null; perm orders the
\* rows whose order the engine does not fix (groups, ties of a sort).
Engine(ok, perm) == [ok |-> ok, perm |-> perm]

Rank(perm, i) == IF i <= Len(perm) THEN perm[i] ELSE i

\* The indices in s by ascending key; the keys differ.
RECURSIVE SortIndices(_, _)
SortIndices(s, key) ==
    IF s = {} THEN << >>
    ELSE LET f == CHOOSE i \in s : \A j \in s : key[i] <= key[j] IN
         <<f>> \o SortIndices(s \ {f}, key)

\* One aggregation: select([col(c).<op>().alias("<op>_<c>")]).collect()?,
\* or group_by([col(c)]).agg([col(c).count().alias("count_<c>")]).collect()?
\* A column that does not exist is an error; on a column without numeric
\* values the engine either reports an error or yields null (engine.ok);
\* the type of a column whose one cell is null is written "null".
aggregate_with(df, op, engine) ==
    LET i == ColumnIndex(df, op.column)
        n == Len(df.rows)
        one(name, v, t) == [res |-> Ok,
                            df |-> [columns |-> << <<name>> \o op.column >>,
                                    rows |-> << <<v>> >>, dtypes |-> <<t>>]] IN
    IF i = 0 THEN [res |-> Err("ColumnNotFound"), df |-> NoVal]
    ELSE IF op.op = "Count" THEN one("count_", n, "unsigned integer")
    ELSE IF op.op = "GroupBy"
    THEN LET firsts == {r \in 1..n : \A k \in 1..(r - 1) : df.rows[k][i] # df.rows[r][i]}
             size(r) == Cardinality({k \in 1..n : df.rows[k][i] = df.rows[r][i]})
             order == SortIndices(firsts, [r \in firsts |-> Rank(engine.perm, r)]) IN
         [res |-> Ok,
          df |-> [columns |-> <<op.column, <<"count_">> \o op.column>>,
                  rows |-> [g \in 1..Len(order) |-> <<df.rows[order[g]][i], size(order[g])>>],
                  dtypes |-> <<df.dtypes[i], "unsigned integer">>]]
    ELSE IF op.op \notin {"Mean", "Sum"} THEN [res |-> Ok, df |-> df]
    ELSE LET name == IF op.op = "Mean" THEN "mean_" ELSE "sum_"
             t == IF op.op = "Mean" THEN "float" ELSE df.dtypes[i] IN
         IF n = 0 \/ df.dtypes[i] \in {"string", "null"}
         THEN IF engine.ok THEN one(name, Null, "null")
              ELSE [res |-> Err("InvalidOperation"), df |-> NoVal]
         ELSE IF df.dtypes[i] = "float" THEN one(name, df.rows[1][i], t)
         ELSE IF op.op = "Mean" THEN one(name, Float(SumOf(df, i, n), n), t)
         ELSE one(name, SumOf(df, i, n), t)

\* Variant of the loop that applies every operation to the dataset.
RECURSIVE aggregate_ops_OnDataset(_, _, _, _)
aggregate_ops_OnDataset(df, ops, k, engine) ==
    IF k > Len(ops) THEN [res |-> Ok, df |-> df]
    ELSE LET a == aggregate_with(df, ops[k], engine) IN
         IF ~ a.res.ok \/ k = Len(ops) THEN a
         ELSE aggregate_ops_OnDataset(df, ops, k + 1, engine)

\* for op in &query.operations, each applied to the result of the one before
RECURSIVE aggregate_ops(_, _, _, _)
aggregate_ops(df, ops, k, engine) ==
    IF k > Len(ops) THEN [res |-> Ok, df |-> df]
    ELSE LET a == aggregate_with(df, ops[k], engine) IN
         IF a.res.ok THEN aggregate_ops(a.df, ops, k + 1, engine) ELSE a

aggregate_op(df, op, engineOk) == aggregate_with(df, op, Engine(engineOk, << >>))

aggregate_all(df, ops, k, engineOk) == aggregate_ops(df, ops, k, Engine(engineOk, << >>))

\* ColumnOperation::Filter(column, operator, value), ColumnOperation::SortBy(column, ascending)
Filter(column, operator, value) ==
    [op |-> "Filter", column |-> column, operator |-> operator, value |-> value]

SortBy(column, ascending) == [op |-> "SortBy", column |-> column, ascending |-> ascending]

Digit(c) ==
    CASE c = "0" -> 0 [] c = "1" -> 1 [] c = "2" -> 2 [] c = "3" -> 3 [] c = "4" -> 4
      [] c = "5" -> 5 [] c = "6" -> 6 [] c = "7" -> 7 [] c = "8" -> 8 [] c = "9" -> 9
      [] OTHER -> -1

RECURSIVE DecimalValue(_, _)
DecimalValue(text, n) ==
    IF n = 0 THEN 0 ELSE 10 * DecimalValue(text, n - 1) + Digit(text[n])

\* Variant of the parse that reads a text that is no number as 0.
parse_f64_Lenient(text) ==
    IF text # << >> /\ \A k \in 1..Len(text) : Digit(text[k]) >= 0
    THEN Some(DecimalValue(text, Len(text)))
    ELSE Some(0)

\* str::parse::<f64>, on texts without sign, point and exponent: a text
\* of digits is its number, any other text is an error.
parse_f64(text) ==
    IF text # << >> /\ \A k \in 1..Len(text) : Digit(text[k]) >= 0
    THEN Some(DecimalValue(text, Len(text)))
    ELSE None

\* The text of a natural number (the cast of an integer to a string).
RECURSIVE Digits(_)
Digits(n) ==
    LET d == CHOOSE c \in {"0", "1", "2", "3", "4", "5", "6", "7", "8", "9"} :
                 Digit(c) = n % 10 IN
    IF n < 10 THEN <<d>> ELSE Digits(n \div 10) \o <<d>>

\* The rows of df at the indices in order.
TakeRows(df, order) == [df EXCEPT !.rows = [k \in 1..Len(order) |-> df.rows[order[k]]]]

\* Variant of the operator match that takes every operator that is no
\* numeric comparator for a comparison with the string literal.
is_equality_OrUnknown(operator) == TRUE

\* "=" | "==" and "!=" | "<>": the comparisons with the string literal.
is_equality(operator) == operator \in {"=", "==", "!=", "<>"}

\* One operation of a Filter query.  A numeric comparator whose value is no
\* number and an unknown operator leave the table as it is (continue)
\* before the column is looked at.  Comparing a numeric column with the
\* string literal of "=" / "!=" is left to the engine: an error, or the
\* comparison of the number's text (engine.ok).  Comparing a string column
\* with a number is reported as an error.
filter_op(df, op, engine) ==
    LET i == ColumnIndex(df, op.column)
        n == Len(df.rows)
        numeric == op.operator \in {">", "<", ">=", "<="}
        equality == is_equality(op.operator)
        num == parse_f64(op.value)
        cmp(x, y) == CASE op.operator = ">" -> x > y
                       [] op.operator = "<" -> x < y
                       [] op.operator = ">=" -> x >= y
                       [] op.operator = "<=" -> x <= y
        same(text) == IF op.operator \in {"=", "=="} THEN text = op.value
                      ELSE text # op.value
        \* the rows that satisfy the predicate, in their order
        keep(kept) == [res |-> Ok,
                       df |-> TakeRows(df, SortIndices(kept, [r \in kept |-> r]))] IN
    IF op.op # "Filter" THEN [res |-> Ok, df |-> df]
    ELSE IF numeric /\ num = None THEN [res |-> Ok, df |-> df]
    ELSE IF ~ numeric /\ ~ equality THEN [res |-> Ok, df |-> df]
    ELSE IF i = 0 THEN [res |-> Err("ColumnNotFound"), df |-> NoVal]
    ELSE IF numeric
    THEN IF df.dtypes[i] = "string" THEN [res |-> Err("ComputeError"), df |-> NoVal]
         ELSE keep({r \in 1..n : cmp(df.rows[r][i], num.v)})
    ELSE IF df.dtypes[i] = "string" THEN keep({r \in 1..n : same(df.rows[r][i])})
    ELSE IF engine.ok THEN keep({r \in 1..n : same(Digits(df.rows[r][i]))})
    ELSE [res |-> Err("ComputeError"), df |-> NoVal]

\* Variant of the loop that applies the last operation only.
filter_ops_LastOnly(df, ops, k, engine) ==
    IF ops = << >> THEN [res |-> Ok, df |-> df]
    ELSE filter_op(df, ops[Len(ops)], engine)

\* for op in &query.operations of a Filter query
RECURSIVE filter_ops(_, _, _, _)
filter_ops(df, ops, k, engine) ==
    IF k > Len(ops) THEN [res |-> Ok, df |-> df]
    ELSE LET a == filter_op(df, ops[k], engine) IN
         IF a.res.ok THEN filter_ops(a.df, ops, k + 1, engine) ELSE a

\* Variant of the projection that leaves out the names that are no column.
select_Lenient(df, cols) ==
    LET found == SelectSeq(cols, LAMBDA c : ColumnIndex(df, c) # 0) IN
    [res |-> Ok,
     df |-> [columns |-> found,
             rows |-> [r \in 1..Len(df.rows) |->
                         [k \in 1..Len(found) |-> df.rows[r][ColumnIndex(df, found[k])]]],
             dtypes |-> [k \in 1..Len(found) |-> df.dtypes[ColumnIndex(df, found[k])]]]]

\* DataFrame::select: the named columns in the order of the names; a name
\* that is no column, or a name given twice, is an error.
select(df, cols) ==
    IF \E k \in 1..Len(cols) : ColumnIndex(df, cols[k]) = 0
    THEN [res |-> Err("ColumnNotFound"), df |-> NoVal]
    ELSE IF \E j, k \in 1..Len(cols) : j # k /\ cols[j] = cols[k]
    THEN [res |-> Err("Duplicate"), df |-> NoVal]
    ELSE [res |-> Ok,
          df |-> [columns |-> cols,
                  rows |-> [r \in 1..Len(df.rows) |->
                              [k \in 1..Len(cols) |-> df.rows[r][ColumnIndex(df, cols[k])]]],
                  dtypes |-> [k \in 1..Len(cols) |-> df.dtypes[ColumnIndex(df, cols[k])]]]]

\* Variant of the projection step that keeps every column.
select_requested_Skip(a, cols) == a

\* if !query.columns.is_empty() { result = result.select(cols)? }
select_requested(a, cols) ==
    IF ~ a.res.ok \/ cols = << >> THEN a ELSE select(a.df, cols)

\* The texts of the string cells, in the order of the string comparison.
CellTexts == << <<"a">>, <<"b">> >>

\* The place of a cell in the ascending order of its column.
OrderKey(df, i, r) ==
    IF df.dtypes[i] = "string"
    THEN CHOOSE k \in 1..Len(CellTexts) : CellTexts[k] = df.rows[r][i]
    ELSE df.rows[r][i]

\* result.sort([col_name], vec![!ascending], false): descending is
\* !ascending, and the order of rows with equal values is not maintained
\* (engine.perm).
sort_op(df, op, engine) ==
    LET i == ColumnIndex(df, op.column)
        n == Len(df.rows)
        width == n + Len(engine.perm) + 1
        descending == ~ op.ascending
        key == [r \in 1..n |->
                  (IF descending THEN 0 - OrderKey(df, i, r) ELSE OrderKey(df, i, r)) * width
                     + Rank(engine.perm, r)] IN
    IF op.op # "SortBy" THEN [res |-> Ok, df |-> df]
    ELSE IF i = 0 THEN [res |-> Err("ColumnNotFound"), df |-> NoVal]
    ELSE [res |-> Ok, df |-> TakeRows(df, SortIndices(1..n, key))]

\* Variant of the loop that applies the first operation only.
sort_ops_FirstOnly(df, ops, k, engine) ==
    IF ops = << >> THEN [res |-> Ok, df |-> df] ELSE sort_op(df, ops[1], engine)

\* for op in &query.operations of a Sort query
RECURSIVE sort_ops(_, _, _, _)
sort_ops(df, ops, k, engine) ==
    IF k > Len(ops) THEN [res |-> Ok, df |-> df]
    ELSE LET a == sort_op(df, ops[k], engine) IN
         IF a.res.ok THEN sort_ops(a.df, ops, k + 1, engine) ELSE a

\* QueryTranslator::apply_operations
apply_operations_with(df, query, engine) ==
    CASE query.intent = "Describe" -> [res |-> Ok, df |-> head(df, 10)]
      [] query.intent = "Aggregate" -> aggregate_ops(df, query.operations, 1, engine)
      [] query.intent = "Filter" ->
           select_requested(filter_ops(df, query.operations, 1, engine), query.columns)
      [] query.intent = "Sort" ->
           select_requested(sort_ops(df, query.operations, 1, engine), query.columns)
      [] query.intent = "Visualize" ->
           LET s == select_requested([res |-> Ok, df |-> df], query.columns) IN
           IF s.res.ok THEN [res |-> Ok, df |-> head(s.df, 100)] ELSE s

\* engineOk: the one choice of the engine the translator's queries meet.
apply_operations(df, query, engineOk) ==
    apply_operations_with(df, query, Engine(engineOk, << >>))

\* Variant of execute_query that keeps the result table as the job's object.
execute_query_StoreResult(st, dk, query, job_id, ioOk, engineOk) ==
    LET u == parse_str(job_id) IN
    IF ~ u.ok THEN [res |-> u, df |-> NoVal, storage |-> st]
    ELSE LET g == load_csv(st, dk, u.uuid, ioOk) IN
         IF ~ g.res.ok THEN [res |-> g.res, df |-> NoVal, storage |-> st]
         ELSE LET p == parse_csv_data(g.data) IN
              IF ~ p.res.ok THEN [res |-> p.res, df |-> NoVal, storage |-> g.storage]
              ELSE LET a == apply_operations(p.df, query, engineOk) IN
                   [res |-> a.res, df |-> a.df,
                    storage |-> IF a.res.ok
                                THEN Put(g.storage, file_key_of(u.uuid),
                                         [kind |-> "csv", columns |-> a.df.columns,
                                          rows |-> a.df.rows, dtypes |-> a.df.dtypes])
                                ELSE g.storage]

\* QueryTranslator::execute_query
execute_query(st, dk, query, job_id, ioOk, engineOk) ==
    LET u == parse_str(job_id) IN
    IF ~ u.ok THEN [res |-> u, df |-> NoVal, storage |-> st]
    ELSE LET g == load_csv(st, dk, u.uuid, ioOk) IN
         IF ~ g.res.ok THEN [res |-> g.res, df |-> NoVal, storage |-> st]
         ELSE LET p == parse_csv_data(g.data) IN
              IF ~ p.res.ok THEN [res |-> p.res, df |-> NoVal, storage |-> g.storage]
              ELSE LET a == apply_operations(p.df, query, engineOk) IN
                   [res |-> a.res, df |-> a.df, storage |-> g.storage]

\* ------------------------------------------------------------------ query handler
\* query_endpoint: Ok(response) => 200 with the QueryResponse as body
QueryResponse(id, text, data, visualization_data) ==
    [status |-> 200, conversation_id |-> id, response |-> text, data |-> data,
     visualization_data |-> visualization_data]

\* query_endpoint: Err(e) => 500 "Error processing query: <e>"
QueryFailure(e) == ErrorResponse(500, <<"Error processing query: ", e.error>>)

QueryRequest(job_id, query, conversation_id) ==
    [job_id |-> job_id, query |-> query, conversation_id |-> conversation_id]

\* ------------------------------------------------------------------ chart synthesis
\* The JSON the writer emits for a table without empty cells: an array of
\* objects, an object being the <<name, value>> pairs of a row in the
\* order of the columns.
json_rows(df) ==
    [r \in 1..Len(df.rows) |->
       [c \in 1..Len(df.columns) |->
          <<df.columns[c],
            IF df.dtypes[c] = "string" THEN JStr(df.rows[r][c])
            ELSE IF df.dtypes[c] = "null" THEN JNull
            ELSE JNum(df.rows[r][c])>>]]

\* The names of the model's columns in the order of the string comparison.
KeyOrder == << <<"code">>, <<"col1">>, <<"col2">>, <<"name">>, <<"score">> >>

\* obj.iter(): the keys of an object in the order of the map, which the
\* build fixes: sorted (BTreeMap) or as inserted (preserve_order).
keys_of(obj, sorted) ==
    LET place(k) == CHOOSE p \in 1..Len(KeyOrder) : KeyOrder[p] = obj[k][1]
        order == SortIndices(1..Len(obj),
                             [k \in 1..Len(obj) |-> IF sorted THEN place(k) ELSE k]) IN
    [k \in 1..Len(obj) |-> obj[order[k]][1]]

\* str::trim, for the space character
RECURSIVE trim(_)
trim(s) ==
    IF s = << >> THEN s
    ELSE IF Head(s) = " " THEN trim(Tail(s))
    ELSE IF s[Len(s)] = " " THEN trim(SubSeq(s, 1, Len(s) - 1))
    ELSE s

\* Variant of the number of an entry that takes null for 0.
as_number_NullIsZero(v) ==
    IF v.t = "number" THEN Some(v.v)
    ELSE IF v.t = "string" THEN parse_f64(trim(v.v))
    ELSE Some(0)

\* The number an entry adds to the sum: val.as_f64() of a number,
\* val.as_str().trim().parse::<f64>() of a string, none otherwise.
as_number(v) ==
    IF v.t = "number" THEN Some(v.v)
    ELSE IF v.t = "string" THEN parse_f64(trim(v.v))
    ELSE None

\* Variant of the test of a first-row field that takes numbers only.
is_numeric_NumbersOnly(v) == v.t = "number"

\* v.is_number() || (v.is_string() && v.as_str().unwrap().trim().parse::<f64>().is_ok())
is_numeric(v) ==
    v.t = "number" \/ (v.t = "string" /\ parse_f64(trim(v.v)) # None)

RECURSIVE SumNumbers(_, _, _)
SumNumbers(data_array, col, n) ==
    IF n = 0 THEN 0
    ELSE LET f == as_number(get_field(data_array[n], col)) IN
         (IF f = None THEN 0 ELSE f.v) + SumNumbers(data_array, col, n - 1)

\* sum / count over the entries of the column that are numbers, 0.0 without one
average_of(data_array, col) ==
    LET count == Cardinality({r \in 1..Len(data_array) :
                                as_number(get_field(data_array[r], col)) # None}) IN
    IF count > 0 THEN Float(SumNumbers(data_array, col, Len(data_array)), count)
    ELSE Float(0, 1)

\* Value::to_string: the JSON text of a value
to_string(v) ==
    IF v.t = "number" THEN Digits(v.v)
    ELSE IF v.t = "string" THEN <<"\"">> \o v.v \o <<"\"">>
    ELSE <<"null">>

Chart(type, data) == [type |-> type, data |-> data, options |-> EmptyMap]

\* The chart for a non-empty array of row objects.  sorted: the order of
\* the keys of an object; perm: the order in which the HashMap of the
\* value counts is iterated.
chart_of(data_array, sorted, perm) ==
    LET obj == data_array[1]
        keys == keys_of(obj, sorted)
        n == Len(data_array)
        numeric_cols == SelectSeq(keys, LAMBDA k : is_numeric(get_field(obj, k)))
        categorical_cols == SelectSeq(keys, LAMBDA k : get_field(obj, k).t = "string") IN
    IF numeric_cols # << >>
    THEN Chart("bar",
               [labels |-> numeric_cols,
                datasets |-> <<[label |-> <<"Average">>,
                                data |-> [k \in 1..Len(numeric_cols) |->
                                            average_of(data_array, numeric_cols[k])]]>>])
    ELSE IF categorical_cols # << >>
    THEN LET col == categorical_cols[1]
             strings == {r \in 1..n : get_field(data_array[r], col).t = "string"}
             firsts == {r \in strings : \A k \in strings :
                           k < r => get_field(data_array[k], col) # get_field(data_array[r], col)}
             order == SortIndices(firsts, [r \in firsts |-> Rank(perm, r)]) IN
         Chart("bar",
               [labels |-> [k \in 1..Len(order) |-> get_field(data_array[order[k]], col).v],
                datasets |-> <<[label |-> col \o <<" count">>,
                                data |-> [k \in 1..Len(order) |->
                                            Cardinality({r \in strings :
                                               get_field(data_array[r], col)
                                                 = get_field(data_array[order[k]], col)})]]>>])
    ELSE Chart("table",
               [columns |-> keys,
                rows |-> [r \in 1..n |->
                            [k \in 1..Len(keys) |-> to_string(get_field(data_array[r], keys[k]))]]])

\* The visualization block of process_query on the parsed JSON array.
visualization_of(intent, data_array, sorted, perm) ==
    IF intent = "Visualize" /\ data_array # << >>
    THEN Some(chart_of(data_array, sorted, perm))
    ELSE None

\* Chart synthesis runs only for the Visualize intent, which neither
\* translation produces.
visualization_data_of(query, json_result) ==
    visualization_of(query.intent, json_rows(FromJson(json_result)), TRUE, << >>)

RECURSIVE TurnsIn(_, _)
TurnsIn(cs, ids) ==
    IF ids = {} THEN 0
    ELSE LET i == CHOOSE x \in ids : TRUE IN
         Len(cs[i].history) + TurnsIn(cs, ids \ {i})

\* A query is accepted while the turns recorded and the queries in progress
\* stay below MaxTurns.
RoomForTurn ==
    TurnsIn(contexts, DOMAIN contexts)
      + Cardinality({h \in Handlers : req[h].op = "query"}) < MaxTurns

\* One call of the NL capability and whether it returned Ok.
NlCall(name, ok) == [call |-> name, ok |-> ok]

\* Variant of the response text that apologises when the summary failed.
response_text_Apology(ai, summaryOk) ==
    IF ai /\ summaryOk THEN <<"summary">> ELSE <<"I couldn't summarise the results.">>

\* The response text: the summary of generate_data_summary, or the fixed
\* sentence when the call failed or no NL capability is configured.
response_text(ai, summaryOk) ==
    IF ai /\ summaryOk THEN <<"summary">> ELSE <<"Here are the results for your query.">>

\* The locals of process_query; calls: the calls of the NL capability the
\* call has made, in order.
QueryLocals(context) ==
    [context |-> context, translation |-> NoVal, result |-> NoVal, calls |-> << >>,
     response |-> NoVal]

\* Variant of the context resolution that always creates a context.
QueryResolve_AlwaysCreate(h, job_id, query, conversation_id) ==
    /\ Ready
    /\ req[h].pc = "idle"
    /\ \E ioOk \in BOOLEAN :
         LET m == get_dataset_metadata(storage, disk, job_id, ioOk) IN
         /\ m.res.ok
         /\ RoomForTurn
         /\ Cardinality(DOMAIN contexts) < MaxContexts
         /\ storage' = m.storage
         /\ nextId' = nextId + 1
         /\ contexts' = store(contexts, NewContext(nextId + 1, job_id, m.metadata))
         /\ req' = [req EXCEPT ![h] =
                      [op |-> "query", pc |-> "translate",
                       input |-> QueryRequest(job_id, query, conversation_id),
                       loc |-> QueryLocals(NewContext(nextId + 1, job_id, m.metadata))]]
    /\ UNCHANGED <<backend, disk, jobs, queue, cache, run, last, received, invoked,
                   logged, expired, ai_service>>

\* Variant of the context resolution that answers a failed creation with an
\* apology instead of returning the error.
QueryResolve_SoftCreate(h, job_id, query, conversation_id) ==
    /\ Ready
    /\ req[h].pc = "idle"
    /\ (conversation_id = None \/ conversation_id.v \notin DOMAIN contexts)
    /\ \E ioOk \in BOOLEAN :
         LET m == get_dataset_metadata(storage, disk, job_id, ioOk) IN
         /\ ~ m.res.ok
         /\ storage' = m.storage
         /\ last' = Answer("query", QueryRequest(job_id, query, conversation_id),
                           QueryResponse(nextId + 1,
                                         <<"I couldn't load your data: ", m.res.error>>,
                                         None, None))
    /\ UNCHANGED <<backend, disk, jobs, queue, cache, nextId, run, req, received,
                   invoked, logged, expired, ai_service, contexts>>

\* process_query, "Get or create conversation context": store.get on the
\* supplied id; on a miss, or without an id, create_context, whose failure
\* is returned to the caller with `?`.
QueryResolve(h, job_id, query, conversation_id) ==
    /\ Ready
    /\ req[h].pc = "idle"
    /\ LET request == QueryRequest(job_id, query, conversation_id)
           found == IF conversation_id = None THEN None
                    ELSE get(contexts, conversation_id.v) IN
       IF found # None
       THEN /\ RoomForTurn
            /\ req' = [req EXCEPT ![h] = [op |-> "query", pc |-> "translate",
                         input |-> request, loc |-> QueryLocals(found.v)]]
            /\ UNCHANGED <<storage, nextId, contexts, last>>
       ELSE \E ioOk \in BOOLEAN :
              LET m == get_dataset_metadata(storage, disk, job_id, ioOk) IN
              /\ storage' = m.storage
              /\ IF m.res.ok
                 THEN LET context == NewContext(nextId + 1, job_id, m.metadata) IN
                      /\ RoomForTurn
                      /\ Cardinality(DOMAIN contexts) < MaxContexts
                      /\ nextId' = nextId + 1
                      /\ contexts' = store(contexts, context)
                      /\ req' = [req EXCEPT ![h] = [op |-> "query", pc |-> "translate",
                                   input |-> request, loc |-> QueryLocals(context)]]
                      /\ last' = last
                 ELSE /\ last' = Answer("query", request, QueryFailure(m.res))
                      /\ UNCHANGED <<nextId, contexts, req>>
    /\ UNCHANGED <<backend, disk, jobs, queue, cache, run, received, invoked,
                   logged, expired, ai_service>>

\* query_translator.translate_query(&request.query, &context).await
QueryTranslate(h) ==
    /\ Ready
    /\ req[h].op = "query" /\ req[h].pc = "translate"
    /\ \E aiOk \in BOOLEAN :
         /\ ai_service \/ aiOk
         /\ req' = [req EXCEPT ![h].pc = "execute",
                      ![h].loc.translation =
                         translate_query(ai_service, req[h].input.query,
                                         req[h].loc.context, aiOk),
                      ![h].loc.calls =
                         IF ai_service THEN Append(@, NlCall("generate_query_translation", aiOk))
                         ELSE @]
    /\ UNCHANGED <<backend, storage, disk, jobs, queue, cache, nextId, run, last,
                   received, invoked, logged, expired, ai_service, contexts>>

\* The soft failure: return Ok(QueryResponse { response: format!(..., e),
\* data: None, visualization_data: None })
SoftFailure(h, prefix, e) ==
    /\ last' = Answer("query", req[h].input,
                      QueryResponse(req[h].loc.context.id, <<prefix, e.error>>,
                                    None, None))
    /\ req' = [req EXCEPT ![h] = IdleReq]

\* Variant of the call of execute_query that passes the job id of the
\* request.
ExecuteCall_RequestJob(h) ==
    \E ioOk \in BOOLEAN, engineOk \in BOOLEAN :
      LET e == execute_query(storage, disk, req[h].loc.translation.query,
                             req[h].input.job_id, ioOk, engineOk) IN
      /\ storage' = e.storage
      /\ req' = [req EXCEPT ![h].pc = "respond",
                   ![h].loc.result = [res |-> e.res, df |-> e.df]]
      /\ last' = last

\* query_translator.execute_query(&structured_query, &context.job_id, s3).await
ExecuteCall(h) ==
    \E ioOk \in BOOLEAN, engineOk \in BOOLEAN :
      LET e == execute_query(storage, disk, req[h].loc.translation.query,
                             req[h].loc.context.job_id, ioOk, engineOk) IN
      /\ storage' = e.storage
      /\ req' = [req EXCEPT ![h].pc = "respond",
                   ![h].loc.result = [res |-> e.res, df |-> e.df]]
      /\ last' = last

\* Variant of the match on the translation that records the failed query as
\* a turn.
QueryExecute_RecordFailure(h) ==
    /\ Ready
    /\ req[h].op = "query" /\ req[h].pc = "execute"
    /\ IF ~ req[h].loc.translation.res.ok
       THEN /\ SoftFailure(h, "I couldn't understand your query: ",
                           req[h].loc.translation.res)
            /\ contexts' = store(contexts,
                                 add_turn(req[h].loc.context, req[h].input.query,
                                          <<"I couldn't understand your query: ">>))
            /\ storage' = storage
       ELSE ExecuteCall(h) /\ contexts' = contexts
    /\ UNCHANGED <<backend, disk, jobs, queue, cache, nextId, run, received,
                   invoked, logged, expired, ai_service>>

\* process_query from the match on the translation to the call of
\* execute_query.
QueryExecute(h) ==
    /\ Ready
    /\ req[h].op = "query" /\ req[h].pc = "execute"
    /\ IF ~ req[h].loc.translation.res.ok
       THEN /\ SoftFailure(h, "I couldn't understand your query: ",
                           req[h].loc.translation.res)
            /\ storage' = storage
       ELSE ExecuteCall(h)
    /\ UNCHANGED <<backend, disk, jobs, queue, cache, nextId, run, received,
                   invoked, logged, expired, ai_service, contexts>>

\* The success path up to the response text: JSON conversion, chart and,
\* with an NL capability, the one call of generate_data_summary, whose
\* error is answered with the fixed sentence.  An error of the JSON writer
\* leaves process_query with `?`; an error of the parse of the written
\* JSON is answered with an apology.
Compose(h) ==
    \E writeOk \in BOOLEAN, jsonOk \in BOOLEAN, summaryOk \in BOOLEAN :
      /\ ai_service \/ summaryOk
      /\ writeOk \/ jsonOk
      /\ IF ~ writeOk
         THEN /\ last' = Answer("query", req[h].input,
                                QueryFailure(Err("Failed to write DataFrame to JSON")))
              /\ req' = [req EXCEPT ![h] = IdleReq]
         ELSE IF ~ jsonOk
         THEN SoftFailure(h, "I couldn't format the results: ", Err("json"))
         ELSE LET json_result == ToJson(req[h].loc.result.df)
                  ai_response == response_text(ai_service, summaryOk) IN
              /\ req' = [req EXCEPT
                   ![h].pc = "store",
                   ![h].loc.calls =
                      IF ai_service THEN Append(@, NlCall("generate_data_summary", summaryOk))
                      ELSE @,
                   ![h].loc.response =
                      QueryResponse(req[h].loc.context.id, ai_response, Some(json_result),
                                    visualization_data_of(req[h].loc.translation.query,
                                                          json_result))]
              /\ last' = last

\* Variant of process_query that records the answer to an empty result as
\* a turn.
QueryRespond_RecordEmpty(h) ==
    /\ Ready
    /\ req[h].op = "query" /\ req[h].pc = "respond"
    /\ LET e == req[h].loc.result IN
       IF ~ e.res.ok
       THEN /\ SoftFailure(h, "I couldn't execute your query: ", e.res)
            /\ contexts' = contexts
       ELSE IF Len(e.df.rows) = 0
       THEN /\ last' = Answer("query", req[h].input,
                              QueryResponse(req[h].loc.context.id,
                                            <<"No data found for your query.">>,
                                            Some([result |-> "empty"]), None))
            /\ contexts' = store(contexts,
                                 add_turn(req[h].loc.context, req[h].input.query,
                                          <<"No data found for your query.">>))
            /\ req' = [req EXCEPT ![h] = IdleReq]
       ELSE Compose(h) /\ contexts' = contexts
    /\ UNCHANGED <<backend, storage, disk, jobs, queue, cache, nextId, run,
                   received, invoked, logged, expired, ai_service>>

\* process_query from the match on the execution to the response text.
QueryRespond(h) ==
    /\ Ready
    /\ req[h].op = "query" /\ req[h].pc = "respond"
    /\ LET e == req[h].loc.result IN
       IF ~ e.res.ok
       THEN SoftFailure(h, "I couldn't execute your query: ", e.res)
       ELSE IF Len(e.df.rows) = 0
       THEN /\ last' = Answer("query", req[h].input,
                              QueryResponse(req[h].loc.context.id,
                                            <<"No data found for your query.">>,
                                            Some([result |-> "empty"]), None))
            /\ req' = [req EXCEPT ![h] = IdleReq]
       ELSE Compose(h)
    /\ UNCHANGED <<backend, storage, disk, jobs, queue, cache, nextId, run,
                   received, invoked, logged, expired, ai_service, contexts>>

\* Variant of the end of process_query that does not append the turn.
QueryStore_NoTurn(h) ==
    /\ Ready
    /\ req[h].op = "query" /\ req[h].pc = "store"
    /\ contexts' = store(contexts, req[h].loc.context)
    /\ last' = Answer("query", req[h].input, req[h].loc.response)
    /\ req' = [req EXCEPT ![h] = IdleReq]
    /\ UNCHANGED <<backend, storage, disk, jobs, queue, cache, nextId, run,
                   received, invoked, logged, expired, ai_service>>

\* The end of process_query: context.add_turn(query, ai_response),
\* store.store(context.clone())? and the return of the response.
QueryStore(h) ==
    /\ Ready
    /\ req[h].op = "query" /\ req[h].pc = "store"
    /\ contexts' = store(contexts, add_turn(req[h].loc.context, req[h].input.query,
                                            req[h].loc.response.response))
    /\ last' = Answer("query", req[h].input, req[h].loc.response)
    /\ req' = [req EXCEPT ![h] = IdleReq]
    /\ UNCHANGED <<backend, storage, disk, jobs, queue, cache, nextId, run,
                   received, invoked, logged, expired, ai_service>>

\* ------------------------------------------------------------------ the query engine
JobIdTexts == {NotAUuid, 1, 2, 3}

QueryTexts == { <<"M", "e", "a", "n">>, <<"h", "i">> }

\* The conversation ids a client supplies: one the store never issued, or
\* one it did.
SuppliedIds == {0} \cup DOMAIN contexts

\* QueryRequest.conversation_id: Option<String>
ConversationIds == {None} \cup {Some(i) : i \in SuppliedIds}

\* The service restarted after two uploads: the files uploads/1.csv and
\* uploads/3.csv are on disk, the in-memory stores are empty.
InitConv ==
    /\ backend = "memory"
    /\ storage = EmptyMap
    /\ \E second \in {Table0, Garbage} :
         disk = [k \in {file_key_of(1), file_key_of(3)} |->
                   IF k = file_key_of(1) THEN Table1 ELSE second]
    /\ jobs = EmptyMap
    /\ queue = << >>
    /\ cache = EmptyMap
    /\ nextId = 4
    /\ run = [r \in Runners |-> IdleRun]
    /\ req = [h \in Handlers |-> IdleReq]
    /\ last = NoVal
    /\ received = << >>
    /\ invoked = << >>
    /\ logged = << >>
    /\ expired = {}
    /\ ai_service \in BOOLEAN
    /\ contexts = EmptyMap

NextConv ==
    \/ Deliver
    \/ \E h \in Handlers, j \in JobIdTexts, q \in QueryTexts, c \in ConversationIds :
         QueryResolve(h, j, q, c)
    \/ \E h \in Handlers : QueryTranslate(h)
    \/ \E h \in Handlers : QueryExecute(h)
    \/ \E h \in Handlers : QueryRespond(h)
    \/ \E h \in Handlers : QueryStore(h)

SpecConv == InitConv /\ [][NextConv]_vars

\* ================================================================== claims
StepOrder == <<"set_processing", "get_job", "get_object", "parse_csv",
               "generate_insights", "cache_insights", "set_completed">>

IsPrefix(s, t) == Len(s) <= Len(t) /\ SubSeq(t, 1, Len(s)) = s

Range(s) == {s[i] : i \in 1..Len(s)}

InProgress(r) == run[r].pc \notin {"idle", "returned"}

\* C1: every change of a job's status is Queued -> Processing or
\* Processing -> Completed; a Completed job never returns to Processing or
\* Queued.
C1_StatusChanges ==
    [][\A j \in DOMAIN jobs :
         jobs'[j].status # jobs[j].status =>
           <<jobs[j].status, jobs'[j].status>> \in
              {<<Queued, Processing>>, <<Processing, Completed>>}]_vars

\* C3: at no time are two executions of process_job in progress.
C3_OneProcessAtATime ==
    Cardinality({r \in Runners : InProgress(r)}) <= 1

\* C4: an enqueue from an upload request never waits for space in the queue:
\* no upload handler is suspended in the send.
C4_EnqueueNeverWaits ==
    \A h \in Handlers : req[h].pc # "send_wait"

\* C2: a step of process_job that fails after the status was set to Processing
\* makes process_job return an error and leaves the job store as it is (the
\* status is not changed, in particular not to Failed); for the worker's
\* executions the status is then Processing; when the failing step is the
\* record fetch, the storage fetch, the parse or the insight generation, the
\* execution has written nothing to the cache.  No job ever has status Failed.
FailsAt(r) ==
    /\ run[r].pc \in Range(Tail(StepOrder))
    /\ run'[r].pc = "returned"
    /\ run'[r].trace = run[r].trace

C5_OrderAndCachedWhenCompleted ==
    /\ \A r \in Runners :
         /\ IsPrefix(run[r].trace, StepOrder)
         /\ (run[r].pc = "returned" /\ run[r].result.ok => run[r].trace = StepOrder)
         /\ (run[r].pc = "get_object" => run[r].file_key = jobs[run[r].job].file_key)
         /\ (run[r].pc = "parse_csv" => run[r].data = storage[jobs[run[r].job].file_key])
    /\ \A j \in DOMAIN jobs :
         jobs[j].status = Completed /\ j \notin expired => j \in DOMAIN cache

C5_Witness ==
    \E r \in Runners :
      /\ run[r].pc = "returned" /\ run[r].result.ok
      /\ jobs[run[r].job].status = Completed
      /\ run[r].job \in DOMAIN cache

\* C6: the worker calls process_job once for each job id it takes from the
\* queue; when process_job returns an error the worker logs it and goes back
\* to waiting: it changes neither the queue nor the job store nor the cache,
\* and an id it has taken is never in the queue again.
C6_WorkerRunsOnceNoRetry ==
    /\ [](/\ invoked = received
          /\ \A i \in 1..Len(queue) : queue[i] \notin Range(received))
    /\ [][(run["worker"].pc = "returned" /\ ~ run["worker"].result.ok
             /\ run'["worker"] # run["worker"]) =>
            /\ run'["worker"].pc = "idle"
            /\ logged' = Append(logged, <<run["worker"].job, FALSE>>)
            /\ UNCHANGED <<queue, jobs, cache, received, invoked>>]_vars

C6_Witness ==
    /\ run["worker"].pc = "idle"
    /\ \E i \in 1..Len(logged) : ~ logged[i][2]

\* C7: an upload whose content is empty is rejected with 400 "No file
\* uploaded", also when its file name is not a .csv name; an upload with
\* content whose file name does not end in ".csv" (in any case) is rejected
\* with 400 "File must be a CSV"; a rejected upload leaves storage, the job
\* store and the queue unchanged.
CsvNames == { <<"a", ".", "c", "s", "v">>, <<"A", ".", "C", "S", "V">> }

BeganUpload(in) ==
    \/ last = NoVal /\ last' # NoVal /\ last'.op = "upload" /\ last'.input = in
    \/ \E h \in Handlers :
         req[h].pc = "idle" /\ req'[h].pc = "create_job" /\ req'[h].input = in

Rejected(in, msg) ==
    /\ last' = [op |-> "upload", input |-> in,
                resp |-> [status |-> 400, error |-> msg]]
    /\ UNCHANGED <<storage, disk, jobs, queue, req>>

C7_InvalidUploadRejected ==
    [][\A c \in UploadContents, f \in FileNames :
         LET in == [content |-> c, filename |-> f] IN
         BeganUpload(in) =>
           /\ (c = EmptyFile => Rejected(in, "No file uploaded"))
           /\ (c # EmptyFile /\ f \notin CsvNames => Rejected(in, "File must be a CSV"))]_vars

C7_Witness ==
    last = [op |-> "upload",
            input |-> [content |-> EmptyFile, filename |-> <<"a", ".", "t", "x", "t">>],
            resp |-> [status |-> 400, error |-> "No file uploaded"]]

\* ------------------------------------------------------------------ claims on process_query
\* Handler h passes the context resolution and goes on to the translation.
Resolved(h) == req[h].pc = "idle" /\ req'[h].pc = "translate"

\* A call of process_query ends in the context resolution with a failure.
ResolveFailed ==
    /\ last = NoVal /\ last' # NoVal
    /\ req' = req
    /\ last'.op = "query" /\ last'.resp.status = 500

IsFound(request) ==
    /\ request.conversation_id # None
    /\ request.conversation_id.v \in DOMAIN contexts

\* The supplied context is reused: nothing is added and the call works on
\* the stored context with the supplied id.
Reuses(h) ==
    /\ contexts' = contexts
    /\ req'[h].loc.context = contexts[req'[h].input.conversation_id.v]

\* Exactly one context is added: its id was never issued and is not the
\* supplied one, its history is empty, and the call works on it.
CreatesOne(h) ==
    LET request == req'[h].input
        new == req'[h].loc.context IN
    /\ new.id > nextId
    /\ request.conversation_id # None => new.id # request.conversation_id.v
    /\ new.id \notin DOMAIN contexts
    /\ new.history = << >>
    /\ new.job_id = request.job_id
    /\ contexts' = Put(contexts, new.id, new)

\* Every response of a call carries the id of the context it resolved.
CarriesResolvedId ==
    \A h \in Handlers :
      /\ (req[h].op = "query" /\ req'[h].op = "query" =>
            req'[h].loc.context = req[h].loc.context)
      /\ (req[h].op = "query" /\ req'[h].pc = "idle" /\ last'.resp.status = 200 =>
            last'.resp.conversation_id = req[h].loc.context.id)

\* C8 as stated: a supplied id that is found is reused; otherwise exactly
\* one new context with a fresh id and an empty history is added and the
\* response carries the new id - whatever the outcome of the creation.
C8_AlwaysCreatesOnMiss ==
    [][/\ \A h \in Handlers :
            Resolved(h) =>
              IF IsFound(req'[h].input) THEN Reuses(h) ELSE CreatesOne(h)
       /\ ~ ResolveFailed
       /\ CarriesResolvedId]_vars

\* C8: a supplied id that is found is reused, no context is added and the
\* response carries the supplied id; otherwise a context is created from the
\* dataset of the request's job id: when that succeeds exactly one new
\* context with a fresh id and an empty history is added and the response
\* carries the new id, not the supplied one; when it fails (invalid job id,
\* dataset not loadable or not parsable) the call fails and adds no context.
C8_ResolvesContext ==
    [][/\ \A h \in Handlers :
            Resolved(h) =>
              IF IsFound(req'[h].input) THEN Reuses(h)
              ELSE /\ CreatesOne(h)
                   /\ get_dataset_metadata(storage, disk, req'[h].input.job_id,
                                           TRUE).res.ok
       /\ ResolveFailed =>
            /\ ~ IsFound(last'.input)
            /\ contexts' = contexts
       /\ CarriesResolvedId]_vars

\* Two calls are past the resolution: one reused the context whose id it
\* supplied, the other supplied an unknown id and works on a new context.
C8_Witness ==
    \E h \in Handlers, g \in Handlers :
      /\ req[h].pc = "translate" /\ req[g].pc = "translate"
      /\ req[h].input.conversation_id = Some(req[h].loc.context.id)
      /\ req[g].input.conversation_id = Some(0)
      /\ req[g].loc.context.id \in DOMAIN contexts

\* The call of handler h returns from the success path: the execution
\* succeeded with a non-empty result and the response carries the data.
Succeeds(h) ==
    /\ req[h].op = "query" /\ req[h].pc = "store" /\ req'[h].pc = "idle"
    /\ req[h].loc.result.res.ok
    /\ Len(req[h].loc.result.df.rows) > 0
    /\ last'.resp.status = 200
    /\ last'.resp.data # None

\* C9: a call that succeeds with a non-empty result stores its context with
\* the history the context had when the call resolved it followed by exactly
\* one turn, holding the request's query text and the response text returned;
\* id, job id and schema snapshot stay as stored and no other context
\* changes.  The context a call resolves is the stored one, and it is not
\* changed during the call.
C9_SuccessAppendsOneTurn ==
    [][\A h \in Handlers :
         /\ Resolved(h) =>
              req'[h].loc.context = contexts'[req'[h].loc.context.id]
         /\ (req[h].op = "query" /\ req'[h].op = "query" =>
               req'[h].loc.context = req[h].loc.context)
         /\ Succeeds(h) =>
              LET context == req[h].loc.context
                  turn == [query |-> req[h].input.query,
                           response |-> last'.resp.response] IN
              /\ context.id \in DOMAIN contexts
              /\ contexts' =
                   [contexts EXCEPT ![context.id] =
                      [@ EXCEPT !.history = Append(context.history, turn)]]]_vars

\* A follow-up query has succeeded: the stored history has two turns, the
\* last one holding the query and the response text of the answer.
C9_Witness ==
    /\ last # NoVal
    /\ last.resp.status = 200
    /\ last.resp.data # None
    /\ last.resp.data # Some([result |-> "empty"])
    /\ last.input.conversation_id = Some(last.resp.conversation_id)
    /\ LET history == contexts[last.resp.conversation_id].history IN
       /\ Len(history) = 2
       /\ history[2] = [query |-> last.input.query, response |-> last.resp.response]

\* The call of handler h returns because the translation (pc "execute") or
\* the execution (pc "respond") failed.
FailsIn(h, pc, prefix) ==
    /\ req[h].op = "query" /\ req[h].pc = pc /\ req'[h].pc # pc
    /\ LET e == IF pc = "execute" THEN req[h].loc.translation.res
                ELSE req[h].loc.result.res IN
       ~ e.ok =>
         /\ req'[h].pc = "idle"
         /\ last' = Answer("query", req[h].input,
                           [status |-> 200,
                            conversation_id |-> req[h].loc.context.id,
                            response |-> <<prefix, e.error>>,
                            data |-> None,
                            visualization_data |-> None])
         /\ contexts' = contexts

\* C10: when the translation or the execution fails the call returns a
\* successful response whose text embeds the error, without data and
\* without visualization, and the stored contexts are left as they are; no
\* step of a call between the resolution and the match on the execution
\* writes to the stored contexts.
C10_SoftFailureKeepsHistory ==
    [][\A h \in Handlers :
         /\ (req[h].op = "query" /\ req[h].pc = "execute" /\ req'[h].pc # "execute" =>
               FailsIn(h, "execute", "I couldn't understand your query: "))
         /\ (req[h].op = "query" /\ req[h].pc = "respond" /\ req'[h].pc # "respond" =>
               FailsIn(h, "respond", "I couldn't execute your query: "))
         /\ (req[h].op = "query" /\ req[h].pc \in {"translate", "execute"}
               /\ req'[h].pc # req[h].pc => contexts' = contexts)]_vars

\* A follow-up query on a context with one turn has failed in the
\* execution: the answer is the apology and the history still has one turn.
C10_Witness ==
    /\ last # NoVal
    /\ last.resp.status = 200
    /\ last.resp.data = None
    /\ last.resp.visualization_data = None
    /\ last.resp.response[1] = "I couldn't execute your query: "
    /\ last.input.conversation_id = Some(last.resp.conversation_id)
    /\ Len(contexts[last.resp.conversation_id].history) = 1

\* A call of process_query returns from the context resolution.
EndsInResolution ==
    /\ last = NoVal /\ last' # NoVal
    /\ req' = req
    /\ last'.op = "query"

CreationErrors == {"Invalid job ID", "Failed to load CSV data", "Failed to parse CSV data"}

Quiescent ==
    /\ backend = "memory"
    /\ jobs = EmptyMap
    /\ queue = << >>
    /\ cache = EmptyMap
    /\ nextId = 0
    /\ run = [r \in Runners |-> IdleRun]
    /\ last = NoVal
    /\ received = << >>
    /\ invoked = << >>
    /\ logged = << >>
    /\ expired = {}
    /\ contexts = EmptyMap

\* One call with the input in hand, made by h1.
CallOf(op, in) ==
    [h \in Handlers |-> IF h = "h1" THEN [op |-> op, pc |-> "call", input |-> in, loc |-> NoVal]
                        ELSE IdleReq]

Table2 == [kind |-> "csv", columns |-> << <<"col2">>, <<"col1">> >>, rows |-> << <<5, 6>> >>,
           dtypes |-> <<"integer", "integer">>]

\* The context create_context makes for a stored file.
ContextOf(data) ==
    NewContext(1, 1, get_dataset_metadata(EmptyMap, Put(EmptyMap, file_key_of(1), data),
                                          1, TRUE).metadata)

TranslateContexts == {ContextOf(t) : t \in {Table0, Table1, Table2}}

WhatsTheAverage ==
    <<"w", "h", "a", "t", "'", "s", " ", "t", "h", "e", " ",
      "a", "v", "e", "r", "a", "g", "e", "?">>

QueryWords ==
    {AverageWord, MeanWord, SumWord, CountWord,
     <<"A", "V", "E", "R", "A", "G", "E">>, <<"M", "e", "a", "n">>, <<"S", "U", "M">>,
     <<"C", "o", "u", "n", "t">>, <<"s", "u", "m", "m", "a", "r", "y">>,
     <<"m", "e", "a">>, <<"h", "i">>}

TranslateTexts ==
    {<< >>, WhatsTheAverage} \cup QueryWords
       \cup {a \o <<" ">> \o b : a \in QueryWords, b \in QueryWords}

\* What generate_query_translation returns: a failure, or a reply
\* {intent, columns, operations}.
AiReplies ==
    [intent : {"Describe", "Aggregate", "Explain"},
     columns : {<< <<"col1">> >>, << <<"colX">> >>},
     operations : {<< >>, <<ColumnOperation("Mean", <<"col1">>)>>}]

AiResponses == {Err("AI service error")} \cup {[ok |-> TRUE, value |-> r] : r \in AiReplies}

InitTranslate ==
    /\ Quiescent
    /\ storage = EmptyMap
    /\ disk = EmptyMap
    /\ ai_service \in BOOLEAN
    /\ \E query \in TranslateTexts, context \in TranslateContexts, response \in AiResponses :
         \* the rules never read the response, the placeholder parser never
         \* reads the text: one response without, two texts with the capability
         /\ ai_service \/ response = Err("AI service error")
         /\ ~ ai_service \/ query \in {WhatsTheAverage, SumWord}
         /\ req = CallOf("translate", [query |-> query, context |-> context,
                                       response |-> response])

\* QueryTranslator::translate_query applied to the input in hand.
TranslateApply ==
    /\ req["h1"].op = "translate" /\ req["h1"].pc = "call"
    /\ LET in == req["h1"].input IN
       last' = Answer("translate", in,
                      translate_reply(ai_service, in.query, in.context, in.response))
    /\ req' = [req EXCEPT !["h1"].pc = "done"]
    /\ UNCHANGED <<backend, storage, disk, jobs, queue, cache, nextId, run, received,
                   invoked, logged, expired, ai_service, contexts>>

SpecTranslate == InitTranslate /\ [][TranslateApply]_vars

\* The word occurs in the text, letter case apart.
Mentions(text, word) ==
    \E i \in 1..Len(text) :
       /\ i + Len(word) - 1 <= Len(text)
       /\ \A k \in 1..Len(word) : ToLowerChar(text[i + k - 1]) = word[k]

\* The operation the fixed order of the rules selects for a text.
RuleFor(text) ==
    IF Mentions(text, AverageWord) \/ Mentions(text, MeanWord) THEN "Mean"
    ELSE IF Mentions(text, SumWord) THEN "Sum"
    ELSE IF Mentions(text, CountWord) THEN "Count"
    ELSE "none"

Translated == last # NoVal /\ last.op = "translate"

\* C12: with no NL capability, the translation never fails; a text that
\* mentions "average" or "mean" (letter case apart) gives Aggregate with
\* [Mean(first column)], else one that mentions "sum" gives [Sum(first
\* column)], else one that mentions "count" gives [Count(first column)],
\* else the query is Describe over all the columns with no operations.
C12_RuleBasedTranslation ==
    Translated /\ ~ ai_service =>
        LET columns == last.input.context.dataset_metadata.columns
            rule == RuleFor(last.input.query)
            q == last.resp.query IN
        /\ last.resp.res.ok
        /\ rule = "none" =>
             /\ q.intent = "Describe" /\ q.columns = columns /\ q.operations = << >>
        /\ rule # "none" =>
             /\ q.intent = "Aggregate"
             /\ q.operations = <<ColumnOperation(rule, columns[1])>>

\* "what's the average?" over [col1, col2] has given Aggregate with [Mean(col1)].
C12_Witness ==
    /\ Translated /\ ~ ai_service
    /\ last.input.query = WhatsTheAverage
    /\ last.input.context.dataset_metadata.columns = << <<"col1">>, <<"col2">> >>
    /\ last.resp.query.intent = "Aggregate"
    /\ last.resp.query.operations = <<ColumnOperation("Mean", <<"col1">>)>>

Intents == {"Describe", "Filter", "Aggregate", "Sort", "Visualize"}

\* The columns a query refers to: its column list and its operations' columns.
ReferencedColumns(q) ==
    Range(q.columns) \cup {q.operations[i].column : i \in 1..Len(q.operations)}

\* C13: with an NL capability whose call succeeded, the translation returns
\* the query the reply describes, it fails when the reply's intent is not
\* one of the five intents or a column the reply refers to is not in the
\* dataset schema, and a query it returns refers to schema columns only.
C13_ReplyIsValidated ==
    Translated /\ ai_service /\ last.input.response.ok =>
        LET reply == last.input.response.value
            schema == Range(last.input.context.dataset_metadata.columns)
            valid == /\ reply.intent \in Intents
                     /\ ReferencedColumns(reply) \subseteq schema IN
        /\ ~ valid => ~ last.resp.res.ok
        /\ last.resp.res.ok =>
             /\ last.resp.query = StructuredQuery(reply.intent, reply.columns, reply.operations)
             /\ ReferencedColumns(last.resp.query) \subseteq schema

\* ------------------------------------------------------------ data loading alone

LoadId == 1

\* The keys the memory map and the storage directory can hold an object of
\* job LoadId under: upload_file and get_object insert under the plain key.
LoadKeys == {file_key_of(LoadId), simple_key_of(LoadId)}

\* Maps from some of the keys to bytes.
StoredUnder(keys) ==
    UNION {[present -> {Table1, Table2}] : present \in SUBSET keys}

InitLoad ==
    /\ Quiescent
    /\ ai_service = FALSE
    /\ storage \in StoredUnder(LoadKeys)
    /\ disk \in StoredUnder(LoadKeys)
    /\ \E io \in [1..Len(LoadVariants(LoadId)) -> BOOLEAN] :
         req = CallOf("load", [id |-> LoadId, io |-> io])

\* The loading step of get_dataset_metadata and of execute_query.
LoadApply ==
    /\ req["h1"].op = "load" /\ req["h1"].pc = "call"
    /\ LET in == req["h1"].input
           g == load_csv_io(storage, disk, in.id, in.io) IN
       /\ last' = Answer("load", [id |-> in.id, io |-> in.io,
                                  storage |-> storage, disk |-> disk], g)
       /\ storage' = g.storage
    /\ req' = [req EXCEPT !["h1"].pc = "done"]
    /\ UNCHANGED <<backend, disk, jobs, queue, cache, nextId, run, received,
                   invoked, logged, expired, ai_service, contexts>>

SpecLoad == InitLoad /\ [][LoadApply]_vars

Loaded == last # NoVal /\ last.op = "load"

\* The four (bucket, key) pairs of the claim, in its order.
ClaimedVariants(id) ==
    << <<"", <<"uploads", id>> >>, <<"default-bucket", <<"uploads", id>> >>,
       <<"data-pipeline-bucket", <<"uploads", id>> >>, <<"", <<id>> >> >>

\* C14: the data of a job is loaded by trying (bucket "", key
\* uploads/{id}), ("default-bucket", same key), (configured bucket, same
\* key), (bucket "", key {id}) in this order; the bytes are those of the
\* first pair whose get_object call succeeds, no later pair is tried, and
\* the load fails ("Failed to load CSV data") exactly when all four fail.
C14_FirstVariantWins ==
    Loaded =>
        LET in == last.input
            vs == ClaimedVariants(in.id)
            Outcome(i) == attempt(in.storage, in.disk, vs[i], in.io[i])
            succeeding == {i \in 1..4 : Outcome(i).res.ok}
            g == last.resp IN
        /\ g.res.ok <=> succeeding # {}
        /\ succeeding = {} =>
             /\ g.res = Err("Failed to load CSV data")
             /\ g.tried = 1..4
        /\ succeeding # {} =>
             LET first == CHOOSE i \in succeeding : \A k \in succeeding : i <= k IN
             /\ g.data = Outcome(first).data
             /\ g.tried = 1..first

\* The first two calls failed on their own, the third found the object
\* under the upload key and the simple key, holding other bytes, was not tried.
C14_Witness ==
    /\ Loaded
    /\ last.input.io = <<FALSE, FALSE, TRUE, TRUE>>
    /\ file_key_of(LoadId) \in DOMAIN last.input.disk
    /\ simple_key_of(LoadId) \in DOMAIN last.input.storage
    /\ last.input.storage[simple_key_of(LoadId)] # last.input.disk[file_key_of(LoadId)]
    /\ file_key_of(LoadId) \notin DOMAIN last.input.storage
    /\ last.resp.res.ok
    /\ last.resp.data = last.input.disk[file_key_of(LoadId)]
    /\ last.resp.tried = {1, 2, 3}

\* ------------------------------------------------------------ executor alone

MaxRows == 11
MaxTies == 3

TableS == [kind |-> "csv", columns |-> << <<"name">>, <<"col1">> >>,
           rows |-> << << <<"a">>, 1>>, << <<"b">>, 2>>, << <<"a">>, 3>> >>,
           dtypes |-> <<"string", "integer">>]

TableL == [kind |-> "csv", columns |-> << <<"col1">> >>,
           rows |-> [r \in 1..MaxRows |-> <<r>>], dtypes |-> <<"integer">>]

ExecTables == {Table0, Table1, TableS, TableL}

ManyRows == 101

\* A dataset of more rows than a Visualize query returns.
TableXL == [kind |-> "csv", columns |-> << <<"col1">>, <<"name">> >>,
            rows |-> [r \in 1..ManyRows |-> <<r, <<"a">> >>],
            dtypes |-> <<"integer", "string">>]

ColumnLists == {<< >>, << <<"col1">> >>, << <<"name">>, <<"col1">> >>, << <<"colX">> >>}

AggregateOps ==
    {ColumnOperation(o, c) :
       o \in {"Mean", "Sum", "Count", "GroupBy"},
       c \in {<<"col1">>, <<"name">>, <<"colX">>, <<"count_", "col1">>, <<"mean_", "col1">>}}

FilterOps ==
    {Filter(c, o, v) :
       c \in {<<"col1">>, <<"name">>, <<"colX">>},
       o \in {"=", "==", ">", "<", ">=", "<=", "!=", "<>", "~"},
       v \in {<<"2">>, <<"a">>}}

SortOps == {SortBy(c, a) : c \in {<<"col1">>, <<"name">>, <<"colX">>}, a \in BOOLEAN}

\* The sequences of one or two of the operations.
UpToTwo(ops) == {<<a>> : a \in ops} \cup {<<a, b>> : a \in ops, b \in ops}

ExecQueries ==
    {StructuredQuery("Describe", cs, os) :
       cs \in ColumnLists, os \in {<< >>, <<ColumnOperation("Mean", <<"colX">>)>>}}
    \cup {StructuredQuery("Aggregate", cs, os) :
            cs \in {<< <<"col1">> >>, << <<"colX">> >>},
            os \in UpToTwo(AggregateOps) \cup {<<Filter(<<"colX">>, "=", <<"2">>)>>}}
    \cup {StructuredQuery("Filter", cs, os) :
            cs \in ColumnLists, os \in {<< >>} \cup UpToTwo(FilterOps)}
    \cup {StructuredQuery("Sort", cs, os) :
            cs \in ColumnLists, os \in {<< >>} \cup UpToTwo(SortOps)}
    \cup {StructuredQuery("Visualize", cs, << >>) : cs \in ColumnLists}

Identity == [i \in 1..MaxTies |-> i]

Perms == {p \in [1..MaxTies -> 1..MaxTies] : \A i, j \in 1..MaxTies : p[i] = p[j] => i = j}

InitExec ==
    /\ Quiescent
    /\ ai_service = FALSE
    /\ storage = EmptyMap
    /\ disk = EmptyMap
    /\ \E data \in ExecTables \cup {TableXL}, query \in ExecQueries,
          ok \in BOOLEAN, perm \in Perms :
         \* only groups and sorts leave an order open
         /\ query.intent \in {"Aggregate", "Sort"} \/ perm = Identity
         \* the long dataset is for the intents that cut the table
         /\ data = TableXL => query.intent \in {"Describe", "Visualize"}
         /\ req = CallOf("execute", [data |-> data, query |-> query,
                                     engine |-> Engine(ok, perm)])

\* execute_query from the parse on: the file is parsed and the operations
\* of the query are applied.
ExecApply ==
    /\ req["h1"].op = "execute" /\ req["h1"].pc = "call"
    /\ LET in == req["h1"].input IN
       last' = Answer("execute", in,
                      apply_operations_with(parse_csv_data(in.data).df, in.query, in.engine))
    /\ req' = [req EXCEPT !["h1"].pc = "done"]
    /\ UNCHANGED <<backend, storage, disk, jobs, queue, cache, nextId, run, received,
                   invoked, logged, expired, ai_service, contexts>>

SpecExec == InitExec /\ [][ExecApply]_vars

Executed(intent) ==
    last # NoVal /\ last.op = "execute" /\ last.input.query.intent = intent

\* The dataset of the executed query.
Dataset == parse_csv_data(last.input.data).df

\* The outcome of the query with the given operations on the same dataset.
OutcomeOf(ops) ==
    apply_operations_with(Dataset, [last.input.query EXCEPT !.operations = ops],
                          last.input.engine)

Aggregations == {"Mean", "Sum", "Count", "GroupBy"}

\* The columns of the output of one aggregation.
OutputColumns(op) ==
    CASE op.op = "Mean" -> << <<"mean_">> \o op.column >>
      [] op.op = "Sum" -> << <<"sum_">> \o op.column >>
      [] op.op = "Count" -> << <<"count_">> \o op.column >>
      [] op.op = "GroupBy" -> <<op.column, <<"count_">> \o op.column>>

ManyAggregations ==
    /\ Executed("Aggregate")
    /\ Len(last.input.query.operations) >= 2
    /\ \A k \in 1..Len(last.input.query.operations) :
         last.input.query.operations[k].op \in Aggregations

Comparators == {">", "<", ">=", "<="}

\* The operation is one the executor applies: a Filter with a comparison
\* against the literal, or with a numeric comparator and a number.
IsApplied(op) ==
    /\ op.op = "Filter"
    /\ \/ op.operator \in {"=", "==", "!=", "<>"}
       \/ op.operator \in Comparators /\ parse_f64(op.value) # None

\* Row r of the dataset satisfies the applied operation.
Satisfies(r, op) ==
    LET i == ColumnIndex(Dataset, op.column)
        cell == Dataset.rows[r][i]
        text == IF Dataset.dtypes[i] = "string" THEN cell ELSE Digits(cell)
        number == parse_f64(op.value).v IN
    CASE op.operator \in {"=", "=="} -> text = op.value
      [] op.operator \in {"!=", "<>"} -> text # op.value
      [] op.operator = ">" -> cell > number
      [] op.operator = "<" -> cell < number
      [] op.operator = ">=" -> cell >= number
      [] op.operator = "<=" -> cell <= number

\* The sequence in the opposite order.
Reverse(s) == [k \in 1..Len(s) |-> s[Len(s) + 1 - k]]

\* The rows of the dataset at the indices in s, in source order, with the
\* cells of the columns in cols (all columns when cols is empty).
SourceRows(s, cols) ==
    LET order == SortIndices(s, [r \in s |-> r])
        names == IF cols = << >> THEN Dataset.columns ELSE cols IN
    [k \in 1..Len(order) |->
       [c \in 1..Len(names) |-> Dataset.rows[order[k]][ColumnIndex(Dataset, names[c])]]]

\* C16: a Filter query that succeeds returns the source rows, in source
\* order, that satisfy every applied Filter operation, with the requested
\* columns when the column list is not empty and all columns otherwise;
\* the query with its operations in the opposite order has the same result.
C16_FilterIsConjunction ==
    Executed("Filter") =>
        LET q == last.input.query
            applied == {k \in 1..Len(q.operations) : IsApplied(q.operations[k])}
            opposite == OutcomeOf(Reverse(q.operations)) IN
        /\ opposite.res.ok <=> last.resp.res.ok
        /\ last.resp.res.ok =>
             LET kept == {r \in 1..Len(Dataset.rows) :
                            \A k \in applied : Satisfies(r, q.operations[k])} IN
             /\ last.resp.df.columns = IF q.columns = << >> THEN Dataset.columns ELSE q.columns
             /\ last.resp.df.rows = SourceRows(kept, q.columns)
             /\ opposite.df = last.resp.df

\* name = a and col1 <= 2 over (a,1), (b,2), (a,3) with the column list
\* [col1]: each operation alone keeps two rows, the result is the row (1).
C16_Witness ==
    /\ Executed("Filter")
    /\ last.input.data = TableS
    /\ last.input.query.columns = << <<"col1">> >>
    /\ last.input.query.operations =
         <<Filter(<<"name">>, "=", <<"a">>), Filter(<<"col1">>, "<=", <<"2">>)>>
    /\ last.resp.res.ok
    /\ last.resp.df.rows = << <<1>> >>
    /\ Len(OutcomeOf(<<Filter(<<"name">>, "=", <<"a">>)>>).df.rows) = 2
    /\ Len(OutcomeOf(<<Filter(<<"col1">>, "<=", <<"2">>)>>).df.rows) = 2

\* The text is a number: here, a non-empty text of decimal digits.
IsNumberText(text) ==
    /\ text # << >>
    /\ \A k \in 1..Len(text) : text[k] \in {"0", "1", "2", "3", "4", "5", "6", "7", "8", "9"}

\* A Filter operation with a numeric comparator and a value that is no number.
HasUnparsableValue(op) ==
    op.op = "Filter" /\ op.operator \in Comparators /\ ~ IsNumberText(op.value)

\* The sequence without its element k.
RemoveAt(s, k) == SubSeq(s, 1, k - 1) \o SubSeq(s, k + 1, Len(s))

\* C17: in a Filter query, an operation with a numeric comparator whose
\* value is no number is skipped: the outcome of the query is the outcome
\* of the query without that operation (it removes no rows and does not
\* fail the query, the operations before and after it are applied), and a
\* query of such operations alone returns every row of the dataset.
C17_UnparsableValueIsSkipped ==
    Executed("Filter") =>
        LET q == last.input.query IN
        /\ \A k \in 1..Len(q.operations) :
             HasUnparsableValue(q.operations[k]) =>
                last.resp = OutcomeOf(RemoveAt(q.operations, k))
        /\ (/\ q.operations # << >>
            /\ \A k \in 1..Len(q.operations) : HasUnparsableValue(q.operations[k])
            /\ q.columns = << >>)
             => last.resp.res.ok /\ last.resp.df = Dataset

\* col1 > "a" followed by col1 <= 2 over (a,1), (b,2), (a,3): the first
\* operation is skipped and the second one has left two rows.
C17_Witness ==
    /\ Executed("Filter")
    /\ last.input.data = TableS
    /\ last.input.query.columns = << >>
    /\ last.input.query.operations =
         <<Filter(<<"col1">>, ">", <<"a">>), Filter(<<"col1">>, "<=", <<"2">>)>>
    /\ last.resp.res.ok
    /\ last.resp.df.rows = << << <<"a">>, 1>>, << <<"b">>, 2>> >>

KnownOperators == {"=", "==", ">", "<", ">=", "<=", "!=", "<>"}

\* C18 as stated: a Filter operation whose operator is not one of =, >, <,
\* >=, <=, != leaves the table unchanged and does not fail the query.
C18_OnlySixOperators ==
    Executed("Filter") =>
        LET q == last.input.query IN
        \A k \in 1..Len(q.operations) :
           (q.operations[k].op = "Filter"
              /\ q.operations[k].operator \notin {"=", ">", "<", ">=", "<=", "!="})
             => last.resp = OutcomeOf(RemoveAt(q.operations, k))

\* C18: a Filter operation whose operator is not one of =, ==, >, <, >=,
\* <=, !=, <> is skipped: the outcome of the query is the outcome of the
\* query without the operation, whatever its column and value, and a query
\* of such operations alone returns every row; == is applied as = and <>
\* as !=.
C18_UnknownOperatorIsSkipped ==
    Executed("Filter") =>
        LET q == last.input.query
            as(o) == IF o = "==" THEN "=" ELSE IF o = "<>" THEN "!=" ELSE o IN
        /\ \A k \in 1..Len(q.operations) :
             (q.operations[k].op = "Filter" /\ q.operations[k].operator \notin KnownOperators)
               => last.resp = OutcomeOf(RemoveAt(q.operations, k))
        /\ (/\ q.operations # << >>
            /\ \A k \in 1..Len(q.operations) : q.operations[k].operator \notin KnownOperators
            /\ q.columns = << >>)
             => last.resp.res.ok /\ last.resp.df = Dataset
        /\ last.resp = OutcomeOf([k \in 1..Len(q.operations) |->
                                    [q.operations[k] EXCEPT !.operator = as(@)]])

\* name ~ a over (a,1), (b,2), (a,3): the operation is skipped and the
\* three rows are returned, while name = a alone leaves two.
C18_Witness ==
    /\ Executed("Filter")
    /\ last.input.data = TableS
    /\ last.input.query.columns = << >>
    /\ last.input.query.operations = <<Filter(<<"name">>, "~", <<"a">>)>>
    /\ last.resp.res.ok
    /\ Len(last.resp.df.rows) = 3
    /\ Len(OutcomeOf(<<Filter(<<"name">>, "=", <<"a">>)>>).df.rows) = 2

ExecutedAny == last # NoVal /\ last.op = "execute"

IsAbsent(column) == ColumnIndex(Dataset, column) = 0

C20_DescribeFirstTenRows ==
    Executed("Describe") =>
        LET n == Len(Dataset.rows)
            m == IF n < 10 THEN n ELSE 10 IN
        /\ last.resp.res.ok
        /\ last.resp.df.columns = Dataset.columns
        /\ Len(last.resp.df.rows) = m
        /\ \A r \in 1..m : last.resp.df.rows[r] = Dataset.rows[r]

\* A dataset of more than ten rows has been described: ten rows are returned.
C20_Witness ==
    /\ Executed("Describe")
    /\ Len(Dataset.rows) > 10
    /\ Len(last.resp.df.rows) = 10
    /\ last.resp.df.rows[10] = Dataset.rows[10]

\* ------------------------------------------------------------ repeated execution

MaxQueries == 3

RepeatQueries ==
    {StructuredQuery("Describe", << >>, << >>),
     StructuredQuery("Aggregate", << <<"col1">> >>, <<ColumnOperation("Mean", <<"col1">>)>>),
     StructuredQuery("Aggregate", << >>, <<ColumnOperation("GroupBy", <<"col1">>)>>),
     StructuredQuery("Filter", << <<"col1">> >>, <<Filter(<<"col1">>, ">", <<"2">>)>>),
     StructuredQuery("Sort", << >>, <<SortBy(<<"col1">>, FALSE)>>),
     StructuredQuery("Visualize", << <<"col1">> >>, << >>),
     StructuredQuery("Filter", << <<"colX">> >>, << >>)}

\* Job 1 is completed: its file is on disk and, unless the process was
\* restarted since the upload, in memory; its insights are cached.
InitRepeat ==
    /\ backend \in {"memory", "external"}
    /\ \E data \in {Table1, TableS, TableL} :
         /\ disk = Put(EmptyMap, file_key_of(1), data)
         /\ storage \in {EmptyMap, disk}
         /\ jobs = update_job_status(create_job(EmptyMap, 1, file_key_of(1)), 1, Completed).jobs
         /\ cache = cache_insights(EmptyMap, backend, 1,
                                   generate_insights(parse_csv_data(data).df))
    /\ queue = << >>
    /\ nextId = 1
    /\ run = [r \in Runners |-> IdleRun]
    /\ req = [h \in Handlers |->
                IF h = "h1" THEN [op |-> "repeat", pc |-> "call", input |-> NoVal,
                                  loc |-> [executed |-> 0, describes |-> << >>]]
                ELSE IdleReq]
    /\ last = NoVal
    /\ received = << >>
    /\ invoked = << >>
    /\ logged = << >>
    /\ expired = {}
    /\ ai_service = FALSE
    /\ contexts = EmptyMap

\* One call of execute_query for job 1; the caller keeps the outcomes of
\* its Describe queries.
RepeatExecute ==
    /\ req["h1"].op = "repeat" /\ req["h1"].loc.executed < MaxQueries
    /\ \E query \in RepeatQueries, ioOk \in BOOLEAN, engineOk \in BOOLEAN :
         LET e == execute_query(storage, disk, query, 1, ioOk, engineOk)
             outcome == [res |-> e.res, df |-> e.df] IN
         /\ storage' = e.storage
         /\ last' = Answer("execute_query", [query |-> query, job_id |-> 1], outcome)
         /\ req' = [req EXCEPT !["h1"].loc =
                      [executed |-> @.executed + 1,
                       describes |-> IF query.intent = "Describe"
                                     THEN Append(@.describes, outcome) ELSE @.describes]]
    /\ UNCHANGED <<backend, disk, jobs, queue, cache, nextId, run, received,
                   invoked, logged, expired, ai_service, contexts>>

SpecRepeat == InitRepeat /\ [][RepeatExecute]_vars

\* What a read of the object store returns for the pair.
ReadOf(st, dk, v) ==
    LET g == get_object(st, dk, v[1], v[2]) IN [res |-> g.res, data |-> g.data]

\* C21: a call of execute_query leaves the files, the job store and the
\* insights cache as they are and changes the outcome of no read of the
\* job's object; the Describe queries of a sequence of queries of any
\* intent that succeed all return the result of the first one, and one
\* fails only when the load fails.
C21_ExecuteChangesNoStore ==
    [][/\ disk' = disk /\ jobs' = jobs /\ cache' = cache
       /\ \A k \in 1..Len(LoadVariants(1)) :
            ReadOf(storage', disk', LoadVariants(1)[k]) = ReadOf(storage, disk, LoadVariants(1)[k])
       /\ LET ds == req'["h1"].loc.describes IN
          \A i, j \in 1..Len(ds) :
             /\ ds[i].res.ok /\ ds[j].res.ok => ds[i] = ds[j]
             /\ ~ ds[i].res.ok => ds[i].res = Err("Failed to load CSV data")]_vars

\* Three queries were executed on the dataset of three rows, the first
\* and the last of them Describe or one other between two Describe: the
\* two Describe results are the same three rows and the file is in memory.
C21_Witness ==
    /\ last # NoVal /\ last.op = "execute_query"
    /\ req["h1"].loc.executed = 3
    /\ Len(req["h1"].loc.describes) = 2
    /\ req["h1"].loc.describes[1].res.ok
    /\ req["h1"].loc.describes[2] = req["h1"].loc.describes[1]
    /\ Len(req["h1"].loc.describes[1].df.rows) = 3
    /\ file_key_of(1) \in DOMAIN storage
    /\ last.input.query.intent = "Describe"

\* The rows of table a are the rows of table b in some order.
SameRows(a, b) ==
    /\ Len(a.rows) = Len(b.rows)
    /\ \A r \in 1..Len(b.rows) :
         Cardinality({k \in 1..Len(a.rows) : a.rows[k] = b.rows[r]})
           = Cardinality({k \in 1..Len(b.rows) : b.rows[k] = b.rows[r]})

\* C22: a Sort query that succeeds returns the source rows in an order in
\* which the column of the last SortBy operation ascends when its flag is
\* true and descends when it is false, whatever the earlier SortBy
\* operations are, with the requested columns when the column list is not
\* empty; without a SortBy operation the rows keep the source order.
C22_SortByLastOperation ==
    Executed("Sort") /\ last.resp.res.ok =>
        LET q == last.input.query
            sorts == {k \in 1..Len(q.operations) : q.operations[k].op = "SortBy"}
            whole == apply_operations_with(Dataset, [q EXCEPT !.columns = << >>],
                                           last.input.engine)
            names == IF q.columns = << >> THEN Dataset.columns ELSE q.columns IN
        /\ whole.res.ok
        /\ whole.df.columns = Dataset.columns
        /\ SameRows(whole.df, Dataset)
        /\ last.resp.df.columns = names
        /\ last.resp.df.rows =
             [r \in 1..Len(whole.df.rows) |->
                [c \in 1..Len(names) |-> whole.df.rows[r][ColumnIndex(Dataset, names[c])]]]
        /\ sorts = {} => whole.df = Dataset
        /\ sorts # {} =>
             LET op == q.operations[CHOOSE k \in sorts : \A j \in sorts : j <= k]
                 i == ColumnIndex(Dataset, op.column) IN
             \A r \in 1..(Len(whole.df.rows) - 1) :
                IF op.ascending
                THEN OrderKey(whole.df, i, r) <= OrderKey(whole.df, i, r + 1)
                ELSE OrderKey(whole.df, i, r) >= OrderKey(whole.df, i, r + 1)

\* (a,1), (b,2), (a,3) sorted by col1 descending and then by name
\* ascending: the rows are in the order of name, and the two rows of a
\* are not in the order the first sort gave them.
C22_Witness ==
    /\ Executed("Sort")
    /\ last.input.data = TableS
    /\ last.input.query.columns = << >>
    /\ last.input.query.operations = <<SortBy(<<"col1">>, FALSE), SortBy(<<"name">>, TRUE)>>
    /\ last.resp.res.ok
    /\ last.resp.df.rows = << << <<"a">>, 1>>, << <<"a">>, 3>>, << <<"b">>, 2>> >>

\* C23: a Visualize query fails when its column list names a column that
\* is absent; otherwise it returns the first min(100,
\* row count) source rows in source order, with the requested columns
\* when the column list is not empty and all columns otherwise, so never
\* more than 100 rows.
C23_VisualizeFirstHundredRows ==
    Executed("Visualize") =>
        LET q == last.input.query
            n == Len(Dataset.rows)
            m == IF n < 100 THEN n ELSE 100
            names == IF q.columns = << >> THEN Dataset.columns ELSE q.columns IN
        /\ last.resp.res.ok <=> \A k \in 1..Len(q.columns) : ~ IsAbsent(q.columns[k])
        /\ last.resp.res.ok =>
             /\ last.resp.df.columns = names
             /\ Len(last.resp.df.rows) = m
             /\ Len(last.resp.df.rows) <= 100
             /\ \A r \in 1..m :
                  last.resp.df.rows[r] =
                    [c \in 1..Len(names) |-> Dataset.rows[r][ColumnIndex(Dataset, names[c])]]

\* The column col1 of a dataset of more than 100 rows and two columns was
\* asked for: 100 rows of one cell are returned, the last one the 100th.
C23_Witness ==
    /\ Executed("Visualize")
    /\ Len(Dataset.rows) > 100
    /\ last.input.query.columns = << <<"col1">> >>
    /\ last.resp.res.ok
    /\ Len(last.resp.df.rows) = 100
    /\ last.resp.df.rows[100] = <<Dataset.rows[100][1]>>

\* ------------------------------------------------------------------ chart synthesis alone
JsonScore == json_rows([columns |-> << <<"score">> >>, rows |-> << <<1>>, <<2>>, <<3>> >>,
                        dtypes |-> <<"integer">>])

JsonNames == json_rows([columns |-> << <<"name">>, <<"code">> >>,
                        rows |-> << << <<"a">>, <<"x">> >>, << <<"b">>, <<"x">> >>,
                                    << <<"a">>, <<"y">> >> >>,
                        dtypes |-> <<"string", "string">>])

\* What the writer emits for a file with empty cells and for text columns
\* that hold digits: null entries, and strings that parse as numbers.
JsonSparse ==
    << << << <<"score">>, JNum(1) >>, << <<"code">>, JStr(<<" ", "2">>) >> >>,
       << << <<"score">>, JNull >>,   << <<"code">>, JStr(<<"x">>) >> >>,
       << << <<"score">>, JNum(4) >>, << <<"code">>, JNull >> >>,
       << << <<"score">>, JNum(4) >>, << <<"code">>, JStr(<<"4", " ">>) >> >> >>

JsonDigits ==
    << << << <<"name">>, JStr(<<"a">>) >>, << <<"code">>, JStr(<<"7">>) >> >>,
       << << <<"name">>, JStr(<<"3">>) >>, << <<"code">>, JStr(<<"b">>) >> >> >>

JsonNullFirst ==
    << << << <<"score">>, JNull >>, << <<"code">>, JNull >> >>,
       << << <<"score">>, JNum(1) >>, << <<"code">>, JStr(<<"x">>) >> >> >>

JsonNullThenText ==
    << << << <<"score">>, JNull >>, << <<"name">>, JStr(<<"a">>) >> >>,
       << << <<"score">>, JNum(2) >>, << <<"name">>, JNull >> >>,
       << << <<"score">>, JNum(2) >>, << <<"name">>, JStr(<<"a">>) >> >> >>

JsonArrays == <<JsonScore, JsonNames, JsonSparse, JsonDigits, JsonNullFirst, JsonNullThenText,
               json_rows(TableS), json_rows(Table2), json_rows(TableL)>>

InitViz ==
    /\ Quiescent
    /\ ai_service = FALSE
    /\ storage = EmptyMap
    /\ disk = EmptyMap
    /\ \E intent \in Intents, k \in 1..Len(JsonArrays), sorted \in BOOLEAN, perm \in Perms :
         req = CallOf("visualize", [intent |-> intent, data |-> JsonArrays[k],
                                    sorted |-> sorted, perm |-> perm])

\* The visualization block of process_query on the JSON of a non-empty result.
VizApply ==
    /\ req["h1"].op = "visualize" /\ req["h1"].pc = "call"
    /\ LET in == req["h1"].input IN
       last' = Answer("visualize", in,
                      visualization_of(in.intent, in.data, in.sorted, in.perm))
    /\ req' = [req EXCEPT !["h1"].pc = "done"]
    /\ UNCHANGED <<backend, storage, disk, jobs, queue, cache, nextId, run, received,
                   invoked, logged, expired, ai_service, contexts>>

SpecViz == InitViz /\ [][VizApply]_vars

Visualized == last # NoVal /\ last.op = "visualize"

\* A field of the first row of the result has the property.
RECURSIVE FirstRowHas(_, _)
FirstRowHas(number, k) ==
    LET v == last.input.data[1][k][2] IN
    \/ IF number THEN v.t = "number" \/ (v.t = "string" /\ IsNumberText(trim(v.v)))
       ELSE v.t = "string"
    \/ k < Len(last.input.data[1]) /\ FirstRowHas(number, k + 1)

FirstRowKeys == {last.input.data[1][k][1] : k \in 1..Len(last.input.data[1])}

NumericLooking(v) ==
    v.t = "number" \/ (v.t = "string" /\ IsNumberText(trim(v.v)))

IsAverages(chart) ==
    /\ chart.type = "bar"
    /\ Len(chart.data.datasets) = 1
    /\ chart.data.datasets[1].label = <<"Average">>

\* chart shows how often each string value of the field col occurs
IsCountsOf(chart, col) ==
    LET data == last.input.data
        texts == {get_field(data[r], col).v :
                    r \in {k \in 1..Len(data) : get_field(data[k], col).t = "string"}}
        labels == chart.data.labels
        values == chart.data.datasets[1].data IN
    /\ chart.type = "bar"
    /\ Len(chart.data.datasets) = 1
    /\ chart.data.datasets[1].label = col \o <<" count">>
    /\ Range(labels) = texts
    /\ Len(labels) = Cardinality(texts)
    /\ Len(values) = Len(labels)
    /\ \A k \in 1..Len(labels) :
         values[k] = Cardinality({r \in 1..Len(data) :
                                    /\ get_field(data[r], col).t = "string"
                                    /\ get_field(data[r], col).v = labels[k]})

IsTable(chart) ==
    /\ chart.type = "table"
    /\ Range(chart.data.columns) = FirstRowKeys
    /\ Len(chart.data.rows) = Len(last.input.data)

\* C24: a Visualize query with a non-empty result gets exactly one chart,
\* chosen from the fields of the first row: the bar chart of averages if a
\* field is a number or a string that reads as a number, otherwise the bar
\* chart of the value counts of one field that is a string if there is
\* one, otherwise the table; a query of another intent gets none.
C24_OneChartShape ==
    Visualized =>
        IF last.input.intent # "Visualize" THEN last.resp = None
        ELSE /\ last.resp # None
             /\ LET chart == last.resp.v IN
                IF FirstRowHas(TRUE, 1) THEN IsAverages(chart)
                ELSE IF FirstRowHas(FALSE, 1)
                THEN \E col \in FirstRowKeys :
                        /\ get_field(last.input.data[1], col).t = "string"
                        /\ IsCountsOf(chart, col)
                ELSE IsTable(chart)

\* The first row holds no number but the text "7" under code: the chart
\* is the bar chart of averages, with code its one label.
C24_Witness ==
    /\ Visualized
    /\ last.input.intent = "Visualize"
    /\ last.input.data = JsonDigits
    /\ last.resp # None
    /\ last.resp.v.type = "bar"
    /\ last.resp.v.data.labels = << <<"code">> >>
    /\ last.resp.v.data.datasets[1].label = <<"Average">>

RECURSIVE NumericSum(_, _, _)
NumericSum(data, col, n) ==
    IF n = 0 THEN 0
    ELSE LET v == get_field(data[n], col) IN
         (IF v.t = "number" THEN v.v
          ELSE IF NumericLooking(v) THEN DecimalValue(trim(v.v), Len(trim(v.v)))
          ELSE 0) + NumericSum(data, col, n - 1)

\* C25: in the bar chart of averages the labels are exactly the fields of
\* the first row that are numbers or strings that read as numbers, and the
\* value of a label is the sum of the numeric entries of that field over
\* all rows divided by the number of these entries; entries that are null
\* or no number count in neither.
C25_AveragesOverNumericEntries ==
    Visualized /\ last.resp # None /\ IsAverages(last.resp.v) =>
        LET data == last.input.data
            labels == last.resp.v.data.labels
            values == last.resp.v.data.datasets[1].data IN
        /\ Range(labels) = {col \in FirstRowKeys : NumericLooking(get_field(data[1], col))}
        /\ Len(labels) = Cardinality(Range(labels))
        /\ Len(values) = Len(labels)
        /\ \A k \in 1..Len(labels) :
             LET count == Cardinality({r \in 1..Len(data) :
                                         NumericLooking(get_field(data[r], labels[k]))}) IN
             /\ count > 0
             /\ values[k].den > 0
             /\ values[k].num * count = NumericSum(data, labels[k], Len(data)) * values[k].den

\* The one column score with the values 1, 2, 3 gives the label score and
\* the value 6 / 3.
C25_Witness ==
    /\ Visualized
    /\ last.input.data = JsonScore
    /\ last.resp # None
    /\ last.resp.v.data.labels = << <<"score">> >>
    /\ last.resp.v.data.datasets[1].data = <<Float(6, 3)>>

\* ------------------------------------------------------------------ correlations alone
MaxCorrRows == 3
MaxCell == 3

\* The files of two numeric columns with empty cells; a column the reader
\* types as numeric has a number.
SparseTables ==
    {[kind |-> "csv", columns |-> << <<"col1">>, <<"col2">> >>, rows |-> rows,
      dtypes |-> <<"integer", "integer">>] :
       rows \in {rs \in [1..MaxCorrRows -> [1..2 -> {NullCell} \cup 1..MaxCell]] :
                   \A c \in 1..2 : \E r \in 1..MaxCorrRows : rs[r][c] # NullCell}}

TableMixed == [kind |-> "csv",
               columns |-> << <<"col1">>, <<"name">>, <<"col2">>, <<"score">> >>,
               rows |-> << <<1, <<"a">>, 3, 2>>, <<2, <<"b">>, 2, NullCell>>,
                           <<3, <<"a">>, 1, 2>>, <<NullCell, <<"b">>, 1, 3>> >>,
               dtypes |-> <<"integer", "string", "integer", "integer">>]

OtherTables == <<TableMixed, TableS, Table1>>

InitCorr ==
    /\ Quiescent
    /\ ai_service = FALSE
    /\ storage = EmptyMap
    /\ disk = EmptyMap
    /\ \/ \E data \in SparseTables : req = CallOf("generate_insights", [data |-> data])
       \/ \E k \in 1..Len(OtherTables) :
             req = CallOf("generate_insights", [data |-> OtherTables[k]])

\* generate_insights on the table parsed from the file.
CorrApply ==
    /\ req["h1"].op = "generate_insights" /\ req["h1"].pc = "call"
    /\ LET in == req["h1"].input IN
       last' = Answer("generate_insights", in, generate_insights(parse_csv_data(in.data).df))
    /\ req' = [req EXCEPT !["h1"].pc = "done"]
    /\ UNCHANGED <<backend, storage, disk, jobs, queue, cache, nextId, run, received,
                   invoked, logged, expired, ai_service, contexts>>

SpecCorr == InitCorr /\ [][CorrApply]_vars

Generated == last # NoVal /\ last.op = "generate_insights"

\* The rows of the analysed table where both columns hold a number.
CompleteRows(c1, c2) ==
    LET df == last.input.data IN
    {r \in 1..Len(df.rows) : /\ df.rows[r][ColumnIndex(df, c1)] # NullCell
                             /\ df.rows[r][ColumnIndex(df, c2)] # NullCell}

\* m * (x - mean of the column over the rows in rs), m the number of rows in rs
DeviationOver(rs, c, r) ==
    LET df == last.input.data
        i == ColumnIndex(df, c) IN
    Cardinality(rs) * df.rows[r][i]
      - SumSeq([k \in 1..Len(df.rows) |-> IF k \in rs THEN df.rows[k][i] ELSE 0], Len(df.rows))

\* The sum over the rows in rs of the products of the deviations of a and b.
ProductSum(rs, a, b) ==
    LET df == last.input.data IN
    SumSeq([k \in 1..Len(df.rows) |->
              IF k \in rs THEN DeviationOver(rs, a, k) * DeviationOver(rs, b, k) ELSE 0],
           Len(df.rows))

\* The pairs of numeric columns with an entry in the correlation map.
StoredPairs ==
    LET df == last.input.data
        numeric == {i \in 1..Len(df.columns) : df.dtypes[i] = "integer"} IN
    {p \in numeric \X numeric :
       /\ p[1] < p[2]
       /\ last.resp.correlations # NoVal
       /\ pair_key(df.columns[p[1]], df.columns[p[2]]) \in DOMAIN last.resp.correlations.v}

StoredValue(p) ==
    last.resp.correlations.v[pair_key(last.input.data.columns[p[1]],
                                    last.input.data.columns[p[2]])]

\* C26: every value of the correlation map is in [-1, 1], and a pair of
\* numeric columns has an entry only if at least 2 rows hold a number in
\* both columns and neither column has zero sample variance over these
\* rows.
C26_EntriesAreWellDefined ==
    Generated =>
        \A p \in StoredPairs :
            LET c1 == last.input.data.columns[p[1]]
                c2 == last.input.data.columns[p[2]]
                rs == CompleteRows(c1, c2)
                v == StoredValue(p) IN
            /\ v.var1 > 0 /\ v.var2 > 0
            /\ v.cov * v.cov <= v.var1 * v.var2
            /\ Cardinality(rs) >= 2
            /\ ProductSum(rs, c1, c1) > 0
            /\ ProductSum(rs, c2, c2) > 0

Sign(x) == IF x > 0 THEN 1 ELSE IF x < 0 THEN -1 ELSE 0

\* C27: the value stored for a pair of numeric columns is the Pearson
\* correlation over the rows where both columns hold a number: means,
\* covariance sum and variance sums are taken over exactly these rows.
C27_PairwiseCompletePearson ==
    Generated =>
        \A p \in StoredPairs :
            LET c1 == last.input.data.columns[p[1]]
                c2 == last.input.data.columns[p[2]]
                rs == CompleteRows(c1, c2)
                cov == ProductSum(rs, c1, c2)
                var1 == ProductSum(rs, c1, c1)
                var2 == ProductSum(rs, c2, c2)
                v == StoredValue(p) IN
            /\ var1 > 0 /\ var2 > 0
            /\ Sign(v.cov) = Sign(cov)
            /\ v.cov * v.cov * var1 * var2 = cov * cov * v.var1 * v.var2

\* ------------------------------------------------------------------ the insights cache
\* Step 6 of runner r wrote the entry of its job in this step.
Cached(r) ==
    /\ run[r].pc = "cache_insights"
    /\ run'[r].pc = "set_completed"

C29_CachedForOneDay ==
    [][/\ \A r \in Runners :
            Cached(r) /\ insights_key(run[r].job) \in DOMAIN cache' =>
                cache'[insights_key(run[r].job)].ttl = 3600 * 24
       /\ \A id \in expired' \ expired : get_insights_value(cache', id) = NoVal]_vars

\* ------------------------------------------------------------------ the locks of the shared maps
\* The calls on the in-process maps, step by step.  loc.held: the locks
\* whose guard the caller holds; loc.io: the file operations it has done.
StorageCalls == {"upload_file", "get_object"}
MapCalls == {"store", "get", "create_job", "get_job", "set_value", "get_value"}

\* The Mutex a call locks: MemoryS3Service.data, InMemoryStore.conversations,
\* MemoryDatabaseService.jobs, MemoryRedisService.data.
LockOf(op) ==
    CASE op \in StorageCalls -> "storage"
      [] op \in {"store", "get"} -> "conversations"
      [] op \in {"create_job", "get_job"} -> "jobs"
      [] OTHER -> "cache"

Holds(h, lock) == req[h].loc # NoVal /\ lock \in req[h].loc.held

Step(h, pc, held, io, result) ==
    [req EXCEPT ![h].pc = pc, ![h].loc = [held |-> held, io |-> io, result |-> result]]

InitLock ==
    /\ Quiescent
    /\ ai_service = FALSE
    /\ \E inMemory, onDisk \in BOOLEAN :
         /\ storage = IF inMemory THEN Put(EmptyMap, file_key_of(1), Table1) ELSE EmptyMap
         /\ disk = IF onDisk THEN Put(EmptyMap, file_key_of(1), Table1) ELSE EmptyMap
    /\ \E ops \in [Handlers -> StorageCalls \cup MapCalls], ids \in [Handlers -> 1..2] :
         req = [h \in Handlers |->
                  [op |-> ops[h], pc |-> "call", input |-> [id |-> ids[h]],
                   loc |-> [held |-> {}, io |-> 0, result |-> NoVal]]]

\* self.data.lock() and its like: the caller waits until the lock is free.
Acquire(h) ==
    /\ req[h].pc \in {"call", "relock"}
    /\ \A o \in Handlers : ~ Holds(o, LockOf(req[h].op))
    /\ req' = Step(h, IF req[h].pc = "call" THEN "locked" ELSE "relocked",
                   {LockOf(req[h].op)}, req[h].loc.io, req[h].loc.result)
    /\ UNCHANGED <<backend, storage, disk, jobs, queue, cache, nextId, run, last, received,
                   invoked, logged, expired, ai_service, contexts>>

\* upload_file: storage.insert(key, data) under the guard `storage`
UploadInsert(h) ==
    /\ req[h].op = "upload_file" /\ req[h].pc = "locked"
    /\ storage' = Put(storage, file_key_of(req[h].input.id), Table1)
    /\ req' = Step(h, "inserted", req[h].loc.held, req[h].loc.io, NoVal)
    /\ UNCHANGED <<backend, disk, jobs, queue, cache, nextId, run, last, received, invoked,
                   logged, expired, ai_service, contexts>>

\* upload_file: create_dir_all, File::create and write_all; the guard
\* `storage` of the function body is still in scope.
UploadWrite(h) ==
    /\ req[h].op = "upload_file" /\ req[h].pc = "inserted"
    /\ \E diskOk \in BOOLEAN :
         /\ disk' = IF diskOk THEN Put(disk, file_key_of(req[h].input.id), Table1) ELSE disk
         /\ req' = Step(h, "written", req[h].loc.held, req[h].loc.io + 1,
                        IF diskOk THEN Ok ELSE Err("Failed to write to file"))
    /\ UNCHANGED <<backend, storage, jobs, queue, cache, nextId, run, last, received, invoked,
                   logged, expired, ai_service, contexts>>

\* upload_file returns: the guard is dropped with the function body.
UploadReturn(h) ==
    /\ req[h].op = "upload_file" /\ req[h].pc = "written"
    /\ req' = Step(h, "done", {}, req[h].loc.io, req[h].loc.result)
    /\ UNCHANGED <<backend, storage, disk, jobs, queue, cache, nextId, run, last, received,
                   invoked, logged, expired, ai_service, contexts>>

\* get_object: the lookup in memory in a block of its own, at whose end
\* the guard is dropped.
GetLookup(h) ==
    /\ req[h].op = "get_object" /\ req[h].pc = "locked"
    /\ LET key == file_key_of(req[h].input.id)
           full_key == <<S3Bucket>> \o key
           found == IF full_key \in DOMAIN storage THEN storage[full_key]
                    ELSE IF key \in DOMAIN storage THEN storage[key]
                    ELSE NoVal IN
       req' = Step(h, IF found # NoVal THEN "done" ELSE "disk", {}, req[h].loc.io, found)
    /\ UNCHANGED <<backend, storage, disk, jobs, queue, cache, nextId, run, last, received,
                   invoked, logged, expired, ai_service, contexts>>

\* get_object: Path::exists and the read of the file in spawn_blocking
GetRead(h) ==
    /\ req[h].op = "get_object" /\ req[h].pc = "disk"
    /\ LET key == file_key_of(req[h].input.id) IN
       \E readOk \in BOOLEAN :
          req' = IF key \in DOMAIN disk /\ readOk
                 THEN Step(h, "relock", req[h].loc.held, req[h].loc.io + 1, disk[key])
                 ELSE Step(h, "done", req[h].loc.held, req[h].loc.io + 1,
                           Err(IF key \in DOMAIN disk THEN "I/O error during spawned file read"
                               ELSE "Object not found"))
    /\ UNCHANGED <<backend, storage, disk, jobs, queue, cache, nextId, run, last, received,
                   invoked, logged, expired, ai_service, contexts>>

\* get_object: storage.insert(key, data_from_disk) and the return
GetInsert(h) ==
    /\ req[h].op = "get_object" /\ req[h].pc = "relocked"
    /\ storage' = Put(storage, file_key_of(req[h].input.id), req[h].loc.result)
    /\ req' = Step(h, "done", {}, req[h].loc.io, req[h].loc.result)
    /\ UNCHANGED <<backend, disk, jobs, queue, cache, nextId, run, last, received, invoked,
                   logged, expired, ai_service, contexts>>

\* The calls on the other maps: the read or the write of the map, and the
\* return, which drops the guard.
MapAccess(h) ==
    /\ req[h].op \in MapCalls /\ req[h].pc = "locked"
    /\ LET id == req[h].input.id
           op == req[h].op IN
       /\ contexts' = IF op = "store" THEN store(contexts, ContextOf(Table1)) ELSE contexts
       /\ jobs' = IF op = "create_job" THEN create_job(jobs, id, file_key_of(id)) ELSE jobs
       /\ cache' = IF op = "set_value"
                   THEN cache_insights(cache, "memory", id,
                                       generate_insights(parse_csv_data(Table1).df))
                   ELSE cache
       /\ req' = Step(h, "done", {}, req[h].loc.io,
                      CASE op = "get" -> get(contexts, id)
                        [] op = "get_job" -> get_job(jobs, id)
                        [] op = "get_value" -> get_insights_value(cache, id)
                        [] OTHER -> Ok)
    /\ UNCHANGED <<backend, storage, disk, queue, nextId, run, last, received, invoked,
                   logged, expired, ai_service>>

NextLock ==
    \E h \in Handlers :
       \/ Acquire(h)
       \/ UploadInsert(h)
       \/ UploadWrite(h)
       \/ UploadReturn(h)
       \/ GetLookup(h)
       \/ GetRead(h)
       \/ GetInsert(h)
       \/ MapAccess(h)

SpecLock == InitLock /\ [][NextLock]_vars

\* C30: the lock of a shared map is held for the read or the write of
\* the map only: a caller does no file or network I/O while it holds the
\* lock of the object store, the context map, the job map or the cache map.
C30_NoIoUnderLock ==
    [][\A h \in Handlers : req'[h].loc.io > req[h].loc.io => req[h].loc.held = {}]_vars

\* ------------------------------------------------------------------ calls of the NL capability
\* The call of handler h returns from the end of the success path.
Stores(h) == req[h].op = "query" /\ req[h].pc = "store" /\ req'[h].pc = "idle"

CallsNamed(calls, name) == {k \in 1..Len(calls) : calls[k].call = name}

\* C31: one process_query calls the NL capability at most once for the
\* translation and at most once for the summary; when the summary call
\* fails the query still succeeds, its response is the sentence "Here are
\* the results for your query.", and that sentence is in the turn it
\* appends.
C31_OneCallNoRetry ==
    [][\A h \in Handlers :
         /\ req'[h].op = "query" =>
              /\ Cardinality(CallsNamed(req'[h].loc.calls, "generate_query_translation")) <= 1
              /\ Cardinality(CallsNamed(req'[h].loc.calls, "generate_data_summary")) <= 1
         /\ Stores(h) =>
              LET calls == req[h].loc.calls
                  summary == CallsNamed(calls, "generate_data_summary")
                  history == contexts'[req[h].loc.context.id].history IN
              /\ ai_service <=> summary # {}
              /\ (\E k \in summary : ~ calls[k].ok) =>
                   /\ last'.resp.status = 200
                   /\ last'.resp.data # None
                   /\ last'.resp.response = <<"Here are the results for your query.">>
                   /\ history[Len(history)] =
                        [query |-> req[h].input.query,
                         response |-> <<"Here are the results for your query.">>]]_vars

\* With an NL capability configured a query was answered with the fixed
\* sentence and data, and the sentence is the response of the last turn.
C31_Witness ==
    /\ ai_service
    /\ last # NoVal
    /\ last.resp.status = 200
    /\ last.resp.data # None
    /\ last.resp.response = <<"Here are the results for your query.">>
    /\ LET history == contexts[last.resp.conversation_id].history IN
       /\ history # << >>
       /\ history[Len(history)].response = <<"Here are the results for your query.">>

\* ------------------------------------------------------------------ lifetime of contexts
\* Handler h takes up a query that supplies the id of a stored context.
TakesUpStored(h) ==
    /\ req[h].pc = "idle" /\ req'[h].op = "query"
    /\ req'[h].input.conversation_id # None
    /\ req'[h].input.conversation_id.v \in DOMAIN contexts

\* C32: no step removes a context; the conversation id of a successful
\* response is the id of a stored context, and a later query that supplies
\* it finds that context and works on it, without creating one.
C32_ContextsAreKept ==
    [][/\ DOMAIN contexts \subseteq DOMAIN contexts'
       /\ (last' # NoVal /\ last'.resp.status = 200) =>
             last'.resp.conversation_id \in DOMAIN contexts'
       /\ \A h \in Handlers :
            TakesUpStored(h) =>
              /\ req'[h].loc.context = contexts[req'[h].input.conversation_id.v]
              /\ contexts' = contexts
              /\ nextId' = nextId]_vars

\* Two contexts are stored, both with a turn, and a query that supplied
\* the id of the first one has been answered on it.
C32_Witness ==
    /\ Cardinality(DOMAIN contexts) = 2
    /\ \A c \in DOMAIN contexts : Len(contexts[c].history) >= 1
    /\ last # NoVal
    /\ last.resp.status = 200
    /\ last.input.conversation_id = Some(last.resp.conversation_id)
    /\ \E c \in DOMAIN contexts : c > last.resp.conversation_id

\* ------------------------------------------------------------------ the keys of an upload
\* C33: for every job a successful upload created, the storage keys that
\* the query executor and the conversation manager derive from the job id
\* returned to the client resolve to the file of that upload.
C33_JobIdFindsTheUpload ==
    \A j \in DOMAIN jobs :
       LET g == load_csv(storage, disk, j, TRUE) IN
       /\ g.res.ok
       /\ g.data = storage[jobs[j].file_key]

\* ------------------------------------------------------------------ concurrent queries
\* C34: when two successful calls on one stored conversation run
\* concurrently the stored history holds both turns afterwards: the store
\* of a call keeps every turn that is in the stored history and adds its
\* own.
C34_NoTurnIsLost ==
    [][\A h \in Handlers :
         Stores(h) =>
           LET id == req[h].loc.context.id IN
           /\ IsPrefix(contexts[id].history, contexts'[id].history)
           /\ Len(contexts'[id].history) = Len(contexts[id].history) + 1]_vars

\* ------------------------------------------------------------------ the worker under fairness
\* One iteration of the spawned task of main.rs: the recv, the steps of
\* process_job it awaits, and the match that logs the outcome.
WorkerStep ==
    \/ WorkerRecv
    \/ PSetProcessing("worker")
    \/ PGetJob("worker")
    \/ PGetObject("worker")
    \/ PParseCsv("worker")
    \/ PGenerateInsights("worker")
    \/ PCacheInsights("worker")
    \/ PSetCompleted("worker")
    \/ WorkerLog

\* The runtime polls the worker task whenever it can run, and a response
\* that was produced is written to its client.
SpecWorker == Init /\ [][Next]_vars /\ SF_vars(WorkerStep) /\ WF_vars(Deliver)

InQueue(j) == \E i \in 1..Len(queue) : queue[i] = j

LoggedJob(j) == \E i \in 1..Len(logged) : logged[i][1] = j

Executes(h) ==
    req[h].op = "query" /\ req[h].pc = "execute" /\ req'[h].pc = "respond"

\* C36: a query that found its conversation is executed against the job id
\* stored in that context, whatever job id the request carries; no step
\* changes the job id of a stored context.
C36_ExecutesOnTheContextsJob ==
    /\ [][\A h \in Handlers :
            Executes(h) =>
              LET stored == contexts[req[h].loc.context.id] IN
              \E ioOk \in BOOLEAN, engineOk \in BOOLEAN :
                LET e == execute_query(storage, disk, req[h].loc.translation.query,
                                       stored.job_id, ioOk, engineOk) IN
                /\ req'[h].loc.result = [res |-> e.res, df |-> e.df]
                /\ storage' = e.storage]_vars
    /\ [][\A c \in DOMAIN contexts :
            /\ c \in DOMAIN contexts'
            /\ contexts'[c].job_id = contexts[c].job_id]_vars

\* A query that supplied a stored conversation id and the id of another
\* job has been executed and got the rows of the conversation's job.
C36_Witness ==
    \E h \in Handlers :
       /\ req[h].op = "query" /\ req[h].pc = "respond"
       /\ req[h].input.conversation_id = Some(req[h].loc.context.id)
       /\ req[h].input.job_id = 3
       /\ req[h].loc.context.job_id = 1
       /\ req[h].loc.result.res.ok
       /\ Len(req[h].loc.result.df.rows) > 0

\* ------------------------------------------------------------------ the insights endpoint
\* get_insights answers without having called process_job.
AnswersDirectly ==
    /\ last = NoVal /\ last' # NoVal
    /\ last'.op = "insights"
    /\ req' = req

\* get_insights calls processor.process_job.
StartsProcess(h) ==
    req[h].pc = "idle" /\ req'[h].op = "insights" /\ req'[h].pc = "process_job"

\* get_insights answers after its call of process_job has returned.
AnswersAfterProcess(h) ==
    req[h].op = "insights" /\ req[h].pc = "process_job" /\ req'[h].pc = "idle"

\* C37: the insights endpoint answers an unknown job id with not-found and
\* a job that is Queued or Processing with its current status, in both
\* cases without starting process_job and without changing the job store
\* or the cache; it returns insights only for a job it read as Completed,
\* and it starts process_job only for a Completed job whose cache entry is
\* missing.  (A failed lookup of the job store is answered with its own
\* error and changes nothing either.)
C37_InsightsOnlyWhenCompleted ==
    [][/\ AnswersDirectly =>
            LET id == last'.input.job_id
                job == get_job(jobs, id)
                r == last'.resp IN
            /\ UNCHANGED <<jobs, cache, run, queue, storage>>
            /\ r # ErrorResponse(500, "Database error") =>
                 /\ job = NoVal => r = ErrorResponse(404, "Job not found")
                 /\ (job # NoVal /\ job.status # Completed) =>
                       r = UploadResponse(202, id, job.status)
            /\ r.status = 200 =>
                 /\ job # NoVal /\ job.status = Completed
                 /\ get_insights_value(cache, id) # NoVal
       /\ \A h \in Handlers :
            /\ StartsProcess(h) =>
                 LET id == req'[h].input.job_id
                     job == get_job(jobs, id) IN
                 /\ job # NoVal /\ job.status = Completed
                 /\ get_insights_value(cache, id) = NoVal
                 /\ run'[h] = StartRun(h, id)[h]
                 /\ UNCHANGED <<jobs, cache>>
            /\ (run[h].pc = "idle" /\ run'[h].pc # "idle") => StartsProcess(h)
            /\ AnswersAfterProcess(h) =>
                 /\ UNCHANGED <<jobs, cache>>
                 /\ last'.resp.status = 200 =>
                      /\ run[h].result.ok
                      /\ get_insights_value(cache, req[h].input.job_id) # NoVal]_vars

\* The endpoint has reported the status of a job that is being processed.
C37_Witness ==
    /\ last # NoVal
    /\ last.op = "insights"
    /\ last.resp.status = 202
    /\ last.resp.job_status = Processing
    /\ \E r \in Runners : InProgress(r) /\ run[r].job = last.input.job_id

\* ------------------------------------------------------------------ the empty result
\* process_query leaves the match on an execution that returned no rows.
AnswersEmpty(h) ==
    /\ req[h].op = "query" /\ req[h].pc = "respond"
    /\ req[h].loc.result.res.ok
    /\ Len(req[h].loc.result.df.rows) = 0
    /\ req'[h] # req[h]

\* C38: when the execution succeeds with zero rows process_query returns
\* successfully with the response "No data found for your query.", the
\* empty-result marker as data and no visualization, whatever the intent
\* of the query is; it has not called the NL summary, calls nothing more,
\* and leaves the stored contexts, and so every history, as they are.
C38_EmptyResultIsAnsweredWithoutTurn ==
    [][\A h \in Handlers :
         AnswersEmpty(h) =>
           /\ last' = Answer("query", req[h].input,
                             [status |-> 200,
                              conversation_id |-> req[h].loc.context.id,
                              response |-> <<"No data found for your query.">>,
                              data |-> Some([result |-> "empty"]),
                              visualization_data |-> None])
           /\ CallsNamed(req[h].loc.calls, "generate_data_summary") = {}
           /\ req'[h] = IdleReq
           /\ contexts' = contexts]_vars

\* With an NL capability configured, a query on the dataset without rows
\* has been answered, and the history of its conversation is empty.
C38_Witness ==
    /\ ai_service
    /\ last # NoVal
    /\ last.op = "query"
    /\ last.resp.status = 200
    /\ last.resp.response = <<"No data found for your query.">>
    /\ last.resp.conversation_id \in DOMAIN contexts
    /\ contexts[last.resp.conversation_id].history = << >>
====
